---- MODULE Spec2Model ----
(***************************************************************************)
(* Model of the poligraph MCP server: the tool-registration and            *)
(* response-shaping layer (src/src/tools/*.ts, src/unnamed/part_003,       *)
(* src/unnamed/part_004) on top of the HTTP client adapter (fetchAPI,      *)
(* src/src/http.ts lines 61-88).                                           *)
(*                                                                         *)
(* Strings of the source are TLA+ strings; accented letters and the long   *)
(* dash of the French labels are written in ASCII (e -> e, "--").  A slug  *)
(* and a request path are sequences of characters (one-character strings;  *)
(* a run of unreserved characters of a path template, such as "api", is    *)
(* one element).                                                           *)
(***************************************************************************)
EXTENDS Integers, Sequences, FiniteSets, TLC

VARIABLES
  pc,        \* "idle", "fetching", "rejected", "done", "failed"
  tool,      \* name of the tool being invoked
  args,      \* its raw input, as sent by the client
  requests,  \* the upstream requests issued by this invocation, in order
  resp,      \* the upstream response the invocation received
  result,    \* what the invocation returned to the protocol layer
  code,      \* a value handed to the label functions or to formatDate
  label,     \* what each of these functions made of code
  endpoint,  \* the binding that serves the requests: "stdio", "express", "vercel"
  process,   \* the server process: "running" or "crashed"
  calls      \* the HTTP requests being served side by side, each with its own state

vars == <<pc, tool, args, requests, resp, result, code, label, endpoint, process, calls>>

\* the state of the HTTP binding
binding == <<endpoint, process, calls>>

-----------------------------------------------------------------------------
(* Bounds of the model.                                                    *)

MaxSlugLen == 3
MaxAffairs == 2
MaxItems == 2
MaxPage == 2
MaxCalls == 2

-----------------------------------------------------------------------------
(* JavaScript values: undefined, null, strings, numbers, booleans.         *)
(* A number n with int = FALSE stands for the non-integer n + 1/2.         *)

Undef == [t |-> "undefined"]
Null == [t |-> "null"]
S(s) == [t |-> "string", s |-> s]
N(n) == [t |-> "number", n |-> n, int |-> TRUE]
Frac(n) == [t |-> "number", n |-> n, int |-> FALSE]
B(b) == [t |-> "boolean", b |-> b]

\* JavaScript truthiness of a value
Truthy(v) ==
  CASE v.t = "string" -> v.s # ""
    [] v.t = "number" -> ~(v.int /\ v.n = 0)
    [] v.t = "boolean" -> v.b
    [] v.t = "object" -> TRUE
    [] OTHER -> FALSE

\* String(value) as fetchAPI applies it to a query parameter
String(v) ==
  CASE v.t = "string" -> v.s
    [] v.t = "number" -> IF v.int THEN ToString(v.n) ELSE ToString(v.n) \o ".5"
    [] v.t = "boolean" -> IF v.b THEN "true" ELSE "false"
    [] v.t = "null" -> "null"
    [] OTHER -> "undefined"

-----------------------------------------------------------------------------
(* Input schemas (zod).                                                    *)

ZString(optional) ==
  [type |-> "string", optional |-> optional, values |-> {}, hasMin |-> FALSE,
   min |-> 0, hasMax |-> FALSE, max |-> 0, default |-> Undef]
ZEnum(values, optional, default) ==
  [type |-> "enum", optional |-> optional, values |-> values, hasMin |-> FALSE,
   min |-> 0, hasMax |-> FALSE, max |-> 0, default |-> default]
ZBoolean(optional) ==
  [type |-> "boolean", optional |-> optional, values |-> {}, hasMin |-> FALSE,
   min |-> 0, hasMax |-> FALSE, max |-> 0, default |-> Undef]
\* z.number().int().min(lo).max(hi).default(d)
ZInt(lo, hi, d) ==
  [type |-> "int", optional |-> FALSE, values |-> {}, hasMin |-> TRUE,
   min |-> lo, hasMax |-> TRUE, max |-> hi, default |-> N(d)]
\* z.number().int().min(1).default(1)
ZPage ==
  [type |-> "int", optional |-> FALSE, values |-> {}, hasMin |-> TRUE,
   min |-> 1, hasMax |-> FALSE, max |-> 0, default |-> N(1)]
\* z.number().int().optional()
ZIntOptional ==
  [type |-> "int", optional |-> TRUE, values |-> {}, hasMin |-> FALSE,
   min |-> 0, hasMax |-> FALSE, max |-> 0, default |-> Undef]
\* z.number().int().min(1).max(100).default(20)
ZLimit == ZInt(1, 100, 20)

AffairStatusEnum ==
  {"ENQUETE_PRELIMINAIRE", "MISE_EN_EXAMEN", "PROCES_EN_COURS",
   "CONDAMNATION_PREMIERE_INSTANCE", "CONDAMNATION_DEFINITIVE", "APPEL_EN_COURS",
   "RELAXE", "NON_LIEU", "PRESCRIPTION"}
AffairCategoryEnum ==
  {"CORRUPTION", "FRAUDE_FISCALE", "BLANCHIMENT", "TRAFIC_INFLUENCE",
   "PRISE_ILLEGALE_INTERET", "VIOLENCE", "HARCELEMENT_SEXUEL", "DIFFAMATION"}
SearchMandateTypeEnum ==
  {"DEPUTE", "SENATEUR", "DEPUTE_EUROPEEN", "PRESIDENT", "PREMIER_MINISTRE",
   "MINISTRE", "SECRETAIRE_ETAT", "MAIRE", "PRESIDENT_REGION",
   "PRESIDENT_DEPARTEMENT", "CONSEILLER_REGIONAL", "CONSEILLER_DEPARTEMENTAL",
   "CONSEILLER_MUNICIPAL"}
ListMandateTypeEnum ==
  {"DEPUTE", "SENATEUR", "DEPUTE_EUROPEEN", "PRESIDENT_REPUBLIQUE",
   "PREMIER_MINISTRE", "MINISTRE", "SECRETAIRE_ETAT", "MINISTRE_DELEGUE",
   "PRESIDENT_REGION", "PRESIDENT_DEPARTEMENT", "MAIRE", "ADJOINT_MAIRE",
   "CONSEILLER_REGIONAL", "CONSEILLER_DEPARTEMENTAL", "CONSEILLER_MUNICIPAL",
   "PRESIDENT_PARTI"}
AdvancedMandateEnum ==
  {"DEPUTE", "SENATEUR", "MINISTRE", "PREMIER_MINISTRE", "MINISTRE_DELEGUE",
   "SECRETAIRE_ETAT", "DEPUTE_EUROPEEN"}
PositionEnum ==
  {"FAR_LEFT", "LEFT", "CENTER_LEFT", "CENTER", "CENTER_RIGHT", "RIGHT", "FAR_RIGHT"}
VerdictEnum ==
  {"TRUE", "MOSTLY_TRUE", "HALF_TRUE", "MISLEADING", "OUT_OF_CONTEXT",
   "MOSTLY_FALSE", "FALSE", "UNVERIFIABLE"}

SlugTools ==
  {"get_politician", "get_politician_relations", "get_politician_affairs",
   "get_politician_votes", "get_politician_factchecks", "get_party"}
PaginatedTools ==
  {"search_politicians", "list_affairs", "list_votes", "get_politician_votes",
   "list_factchecks", "get_politician_factchecks", "list_parties", "list_mandates",
   "search_advanced"}
Tools ==
  SlugTools \cup PaginatedTools \cup
  {"get_department_stats", "get_deputies_by_department", "get_vote_stats",
   "get_factcheck_stats"}

\* inputSchema of each registered tool
Schema_search_politicians ==
  [query |-> ZString(TRUE), party |-> ZString(TRUE),
   mandateType |-> ZEnum(SearchMandateTypeEnum, TRUE, Undef),
   hasAffairs |-> ZBoolean(TRUE), page |-> ZPage, limit |-> ZLimit]
Schema_get_politician_relations ==
  [slug |-> ZString(FALSE), types |-> ZString(TRUE), limit |-> ZInt(1, 50, 10)]
Schema_get_politician ==
  [slug |-> ZString(FALSE)]
Schema_list_affairs ==
  [status |-> ZEnum(AffairStatusEnum, TRUE, Undef),
   category |-> ZEnum(AffairCategoryEnum, TRUE, Undef),
   page |-> ZPage, limit |-> ZLimit]
Schema_get_politician_affairs ==
  [slug |-> ZString(FALSE)]
Schema_get_department_stats ==
  [filter |-> ZEnum({"all", "deputes", "senateurs"}, TRUE, S("all"))]
Schema_get_deputies_by_department ==
  [department |-> ZString(FALSE)]
Schema_list_votes ==
  [search |-> ZString(TRUE), result |-> ZEnum({"ADOPTED", "REJECTED"}, TRUE, Undef),
   legislature |-> ZIntOptional, page |-> ZPage, limit |-> ZLimit]
Schema_get_politician_votes ==
  [slug |-> ZString(FALSE), page |-> ZPage, limit |-> ZLimit]
Schema_get_vote_stats ==
  [chamber |-> ZEnum({"AN", "SENAT"}, TRUE, Undef)]
Schema_list_mandates ==
  [type |-> ZEnum(ListMandateTypeEnum, TRUE, Undef), isCurrent |-> ZBoolean(TRUE),
   institution |-> ZString(TRUE), page |-> ZPage, limit |-> ZLimit]
Schema_list_parties ==
  [search |-> ZString(TRUE), position |-> ZEnum(PositionEnum, TRUE, Undef),
   active |-> ZBoolean(TRUE), page |-> ZPage, limit |-> ZLimit]
Schema_get_party ==
  [slug |-> ZString(FALSE)]
Schema_list_factchecks ==
  [search |-> ZString(TRUE), politician |-> ZString(TRUE),
   source |-> ZString(TRUE), verdict |-> ZEnum(VerdictEnum, TRUE, Undef),
   page |-> ZPage, limit |-> ZLimit]
Schema_get_politician_factchecks ==
  [slug |-> ZString(FALSE), page |-> ZPage, limit |-> ZLimit]
Schema_get_factcheck_stats ==
  [limit |-> ZInt(1, 50, 15)]
Schema_search_advanced ==
  [query |-> ZString(TRUE), party |-> ZString(TRUE),
   mandate |-> ZEnum(AdvancedMandateEnum, TRUE, Undef),
   department |-> ZString(TRUE), hasAffairs |-> ZBoolean(TRUE),
   isActive |-> ZBoolean(TRUE), page |-> ZPage, limit |-> ZLimit]

\* the hints of a registration that is marked read-only
ReadOnlyAnnotations ==
  [readOnlyHint |-> TRUE, destructiveHint |-> FALSE, openWorldHint |-> FALSE]

\* the annotations tool t is registered with: server.registerTool is given
\* them in its config, server.tool(name, description, schema, handler) has none
Annotations(t) ==
  IF t = "list_mandates" THEN Undef ELSE ReadOnlyAnnotations

\* the schema registered under tool name t
Schema(t) ==
  CASE t = "search_politicians" -> Schema_search_politicians
    [] t = "get_politician_relations" -> Schema_get_politician_relations
    [] t = "get_politician" -> Schema_get_politician
    [] t = "list_affairs" -> Schema_list_affairs
    [] t = "get_politician_affairs" -> Schema_get_politician_affairs
    [] t = "get_department_stats" -> Schema_get_department_stats
    [] t = "get_deputies_by_department" -> Schema_get_deputies_by_department
    [] t = "list_votes" -> Schema_list_votes
    [] t = "get_politician_votes" -> Schema_get_politician_votes
    [] t = "get_vote_stats" -> Schema_get_vote_stats
    [] t = "list_mandates" -> Schema_list_mandates
    [] t = "list_parties" -> Schema_list_parties
    [] t = "get_party" -> Schema_get_party
    [] t = "list_factchecks" -> Schema_list_factchecks
    [] t = "get_politician_factchecks" -> Schema_get_politician_factchecks
    [] t = "get_factcheck_stats" -> Schema_get_factcheck_stats
    [] t = "search_advanced" -> Schema_search_advanced

\* whether value v satisfies the field schema z
\* FieldOK gone wrong: the JavaScript type is checked, ranges and enums are not
FieldOK_typeOnly(z, v) ==
  IF v.t = "undefined" THEN z.optional \/ z.default.t # "undefined"
  ELSE CASE z.type = "string" -> v.t = "string"
         [] z.type = "enum" -> v.t = "string"
         [] z.type = "boolean" -> v.t = "boolean"
         [] z.type = "int" -> v.t = "number"

\* whether value v passes the zod type z
FieldOK(z, v) ==
  IF v.t = "undefined" THEN z.optional \/ z.default.t # "undefined"
  ELSE CASE z.type = "string" -> v.t = "string"
         [] z.type = "enum" -> v.t = "string" /\ v.s \in z.values
         [] z.type = "boolean" -> v.t = "boolean"
         [] z.type = "int" ->
              /\ v.t = "number"
              /\ v.int
              /\ (z.hasMin => v.n >= z.min)
              /\ (z.hasMax => v.n <= z.max)

\* whether the raw input a passes the input schema of tool t
SchemaOK(t, a) == \A f \in DOMAIN Schema(t) : FieldOK(Schema(t)[f], a[f])

\* the input as the handler receives it: defaults applied
Parsed(t, a) ==
  [f \in DOMAIN Schema(t) |->
     IF a[f].t = "undefined" THEN Schema(t)[f].default ELSE a[f]]

-----------------------------------------------------------------------------
(* Character sequences, encodeURIComponent and the URL parser.             *)

RECURSIVE Flatten(_)
\* concatenation of a sequence of sequences
Flatten(ss) == IF ss = <<>> THEN <<>> ELSE Head(ss) \o Flatten(Tail(ss))

\* number of positions of cs that hold c
Count(c, cs) == Cardinality({i \in 1..Len(cs) : cs[i] = c})

\* index of the first element of cs that is in set, Len(cs) + 1 when none is
FirstIn(cs, set) ==
  IF \E i \in 1..Len(cs) : cs[i] \in set
  THEN CHOOSE i \in 1..Len(cs) :
         cs[i] \in set /\ \A j \in 1..(i - 1) : cs[j] \notin set
  ELSE Len(cs) + 1

\* the characters encodeURIComponent leaves alone (ECMAScript uriUnescaped),
\* among the characters of the model
UriUnescaped ==
  {"a", "e", "E", "F", "2", "3", "5", ".", "-", "_", "!", "~", "*", "'", "(", ")"}

\* %XX of a character (UTF-8, upper-case hexadecimal)
PercentCode(c) ==
  CASE c = "/" -> <<"%", "2", "F">>
    [] c = "?" -> <<"%", "3", "F">>
    [] c = "#" -> <<"%", "2", "3">>
    [] c = "%" -> <<"%", "2", "5">>
    [] c = " " -> <<"%", "2", "0">>
    [] c = "\\" -> <<"%", "5", "C">>

\* encodeURIComponent with no escaping at all: the slug goes into the path raw
encodeURIComponent_raw(cs) == cs

RECURSIVE encodeURIComponent(_)
encodeURIComponent(cs) ==
  IF cs = <<>> THEN <<>>
  ELSE (IF Head(cs) \in UriUnescaped THEN <<Head(cs)>> ELSE PercentCode(Head(cs)))
       \o encodeURIComponent(Tail(cs))

RECURSIVE Split(_)
\* the segments of a path: cs cut at every "/" (and "\", which the parser of
\* a special scheme treats as "/")
Split(cs) ==
  LET i == FirstIn(cs, {"/", "\\"})
  IN IF i > Len(cs) THEN <<cs>>
     ELSE <<SubSeq(cs, 1, i - 1)>> \o Split(SubSeq(cs, i + 1, Len(cs)))

\* the path percent-encode set of the URL standard, among the model's characters
PathPercentEncodeSet == {" ", "?", "#"}

RECURSIVE PercentEncodePath(_)
PercentEncodePath(cs) ==
  IF cs = <<>> THEN <<>>
  ELSE (IF Head(cs) \in PathPercentEncodeSet THEN PercentCode(Head(cs)) ELSE <<Head(cs)>>)
       \o PercentEncodePath(Tail(cs))

SingleDotSegments == {<<".">>, <<"%", "2", "e">>, <<"%", "2", "E">>}
DoubleDotSegments == {x \o y : x \in SingleDotSegments, y \in SingleDotSegments}

\* "shorten a URL's path" (https scheme): drop the last segment, if any
Shorten(path) == IF path = <<>> THEN path ELSE SubSeq(path, 1, Len(path) - 1)

RECURSIVE PathState(_, _, _)
\* the path state of the URL parser over segments segs[i..], path built so far
PathState(segs, i, path) ==
  IF i > Len(segs) THEN path
  ELSE LET buffer == PercentEncodePath(segs[i])
           last == (i = Len(segs))
       IN IF buffer \in DoubleDotSegments
          THEN PathState(segs, i + 1,
                         IF last THEN Append(Shorten(path), <<>>) ELSE Shorten(path))
          ELSE IF buffer \in SingleDotSegments
          THEN PathState(segs, i + 1, IF last THEN Append(path, <<>>) ELSE path)
          ELSE PathState(segs, i + 1, Append(path, buffer))

\* new URL(path, BASE_URL) for a path that starts with "/": the pathname
\* (serialized), the query and the fragment the path carries
NewURL(path) ==
  LET q == FirstIn(path, {"?", "#"})
      h == FirstIn(path, {"#"})
      segs == PathState(Split(SubSeq(path, 2, q - 1)), 1, <<>>)
  IN [pathname |-> Flatten([i \in 1..Len(segs) |-> <<"/">> \o segs[i]]),
      search |-> IF q <= Len(path) /\ path[q] = "?" THEN SubSeq(path, q + 1, h - 1) ELSE <<>>,
      hash |-> SubSeq(path, h + 1, Len(path))]

\* url.searchParams.set(key, value) on the list of entries
SearchParamsSet(entries, key, value) ==
  IF \E i \in 1..Len(entries) : entries[i][1] = key
  THEN LET first == FirstIn([i \in 1..Len(entries) |-> entries[i][1]], {key})
           Other(e) == e[1] # key
       IN Append(SubSeq(entries, 1, first - 1), <<key, value>>)
          \o SelectSeq(SubSeq(entries, first + 1, Len(entries)), Other)
  ELSE Append(entries, <<key, value>>)

\* fetchAPI's test on a parameter value, without the empty-string case
SendsParam_dropFalsy(value) == Truthy(value)

\* fetchAPI's test on a parameter value: value !== undefined && value !== ""
SendsParam(value) ==
  value.t # "undefined" /\ ~(value.t = "string" /\ value.s = "")

RECURSIVE SetParams(_, _)
\* fetchAPI's loop over Object.entries(params)
SetParams(entries, params) ==
  IF params = <<>> THEN entries
  ELSE LET key == Head(params)[1]
           value == Head(params)[2]
       IN SetParams(IF SendsParam(value)
                    THEN SearchParamsSet(entries, key, String(value))
                    ELSE entries,
                    Tail(params))

\* the request fetchAPI(path, params) issues: the URL it builds
fetchAPI(path, params) ==
  [path |-> path, url |-> NewURL(path), query |-> SetParams(<<>>, params)]

-----------------------------------------------------------------------------
(* The upstream request of each tool handler (a is the validated input).   *)

\* Req_search_politicians gone wrong: the limit is not passed on
Req_search_politicians_noLimit(a) ==
  fetchAPI(<<"/", "api", "/", "politiques">>,
           << <<"search", a.query>>, <<"partyId", a.party>>,
              <<"mandateType", a.mandateType>>,
              <<"hasAffairs", IF a.hasAffairs.t # "undefined" THEN a.hasAffairs ELSE Undef>>,
              <<"page", a.page>> >>)

Req_search_politicians(a) ==
  fetchAPI(<<"/", "api", "/", "politiques">>,
           << <<"search", a.query>>, <<"partyId", a.party>>,
              <<"mandateType", a.mandateType>>,
              <<"hasAffairs", IF a.hasAffairs.t # "undefined" THEN a.hasAffairs ELSE Undef>>,
              <<"page", a.page>>, <<"limit", a.limit>> >>)

Req_get_politician_relations(a) ==
  fetchAPI(<<"/", "api", "/", "politiques", "/">> \o encodeURIComponent(a.slug.s)
             \o <<"/", "relations">>,
           << <<"types", a.types>>, <<"limit", a.limit>> >>)

Req_get_politician(a) ==
  fetchAPI(<<"/", "api", "/", "politiques", "/">> \o encodeURIComponent(a.slug.s), <<>>)

\* Req_list_affairs gone wrong: the category is not passed on
Req_list_affairs_noCategory(a) ==
  fetchAPI(<<"/", "api", "/", "affaires">>,
           << <<"status", a.status>>, <<"page", a.page>>, <<"limit", a.limit>> >>)

Req_list_affairs(a) ==
  fetchAPI(<<"/", "api", "/", "affaires">>,
           << <<"status", a.status>>, <<"category", a.category>>,
              <<"page", a.page>>, <<"limit", a.limit>> >>)

Req_get_politician_affairs(a) ==
  fetchAPI(<<"/", "api", "/", "politiques", "/">> \o encodeURIComponent(a.slug.s)
             \o <<"/", "affaires">>,
           <<>>)

Req_get_department_stats(a) ==
  fetchAPI(<<"/", "api", "/", "stats", "/", "departments">>, << <<"filter", a.filter>> >>)

Req_get_deputies_by_department(a) ==
  fetchAPI(<<"/", "api", "/", "deputies", "/", "by-department">>,
           << <<"department", a.department>> >>)

Req_list_votes(a) ==
  fetchAPI(<<"/", "api", "/", "votes">>,
           << <<"search", a.search>>, <<"result", a.result>>,
              <<"legislature", a.legislature>>, <<"page", a.page>>,
              <<"limit", a.limit>> >>)

Req_get_politician_votes(a) ==
  fetchAPI(<<"/", "api", "/", "politiques", "/">> \o encodeURIComponent(a.slug.s)
             \o <<"/", "votes">>,
           << <<"page", a.page>>, <<"limit", a.limit>> >>)

Req_get_vote_stats(a) ==
  fetchAPI(<<"/", "api", "/", "votes", "/", "stats">>, << <<"chamber", a.chamber>> >>)

Req_list_mandates(a) ==
  fetchAPI(<<"/", "api", "/", "mandats">>,
           << <<"type", a.type>>,
              <<"isCurrent", IF a.isCurrent.t # "undefined" THEN a.isCurrent ELSE Undef>>,
              <<"institution", a.institution>>, <<"page", a.page>>,
              <<"limit", a.limit>> >>)

Req_list_parties(a) ==
  fetchAPI(<<"/", "api", "/", "partis">>,
           << <<"search", a.search>>, <<"position", a.position>>,
              <<"active", IF a.active.t # "undefined" THEN a.active ELSE Undef>>,
              <<"page", a.page>>, <<"limit", a.limit>> >>)

Req_get_party(a) ==
  fetchAPI(<<"/", "api", "/", "partis", "/">> \o encodeURIComponent(a.slug.s), <<>>)

Req_list_factchecks(a) ==
  fetchAPI(<<"/", "api", "/", "factchecks">>,
           << <<"search", a.search>>, <<"politician", a.politician>>,
              <<"source", a.source>>, <<"verdict", a.verdict>>,
              <<"page", a.page>>, <<"limit", a.limit>> >>)

Req_get_politician_factchecks(a) ==
  fetchAPI(<<"/", "api", "/", "politiques", "/">> \o encodeURIComponent(a.slug.s)
             \o <<"/", "factchecks">>,
           << <<"page", a.page>>, <<"limit", a.limit>> >>)

Req_get_factcheck_stats(a) ==
  fetchAPI(<<"/", "api", "/", "factchecks", "/", "stats">>, << <<"limit", a.limit>> >>)

Req_search_advanced(a) ==
  fetchAPI(<<"/", "api", "/", "search", "/", "advanced">>,
           << <<"q", a.query>>, <<"party", a.party>>, <<"mandate", a.mandate>>,
              <<"department", a.department>>,
              <<"hasAffairs", IF a.hasAffairs.t # "undefined" THEN a.hasAffairs ELSE Undef>>,
              <<"isActive", IF a.isActive.t # "undefined" THEN a.isActive ELSE Undef>>,
              <<"page", a.page>>, <<"limit", a.limit>> >>)

\* the request of the handler registered under tool name t
Request(t, a) ==
  CASE t = "search_politicians" -> Req_search_politicians(a)
    [] t = "get_politician_relations" -> Req_get_politician_relations(a)
    [] t = "get_politician" -> Req_get_politician(a)
    [] t = "list_affairs" -> Req_list_affairs(a)
    [] t = "get_politician_affairs" -> Req_get_politician_affairs(a)
    [] t = "get_department_stats" -> Req_get_department_stats(a)
    [] t = "get_deputies_by_department" -> Req_get_deputies_by_department(a)
    [] t = "list_votes" -> Req_list_votes(a)
    [] t = "get_politician_votes" -> Req_get_politician_votes(a)
    [] t = "get_vote_stats" -> Req_get_vote_stats(a)
    [] t = "list_mandates" -> Req_list_mandates(a)
    [] t = "list_parties" -> Req_list_parties(a)
    [] t = "get_party" -> Req_get_party(a)
    [] t = "list_factchecks" -> Req_list_factchecks(a)
    [] t = "get_politician_factchecks" -> Req_get_politician_factchecks(a)
    [] t = "get_factcheck_stats" -> Req_get_factcheck_stats(a)
    [] t = "search_advanced" -> Req_search_advanced(a)

-----------------------------------------------------------------------------
(* Enum-to-label dictionaries.  Each is an object literal read as          *)
(* labels[code] || code, so a code that is no key of the table still finds *)
(* what the literal inherits from Object.prototype.                        *)

\* the properties every object literal inherits, as a template string renders them
ObjectPrototype ==
  ("constructor" :> "function Object() { [native code] }") @@
  ("toString" :> "function toString() { [native code] }") @@
  ("__proto__" :> "[object Object]")

\* labels[key] || key
PropertyOr(labels, key) ==
  IF key \in DOMAIN labels
  THEN (IF labels[key] # "" THEN labels[key] ELSE key)
  ELSE IF key \in DOMAIN ObjectPrototype THEN ObjectPrototype[key] ELSE key

formatStatus(status) ==
  PropertyOr(("ENQUETE_PRELIMINAIRE" :> "Enquete preliminaire") @@
             ("MISE_EN_EXAMEN" :> "Mise en examen") @@
             ("PROCES_EN_COURS" :> "Proces en cours") @@
             ("CONDAMNATION_PREMIERE_INSTANCE" :> "Condamnation (1ere instance)") @@
             ("CONDAMNATION_DEFINITIVE" :> "Condamnation definitive") @@
             ("APPEL_EN_COURS" :> "Appel en cours") @@
             ("RELAXE" :> "Relaxe") @@
             ("NON_LIEU" :> "Non-lieu") @@
             ("PRESCRIPTION" :> "Prescription"),
             status)

formatCategory(category) ==
  PropertyOr(("CORRUPTION" :> "Corruption") @@
             ("FRAUDE_FISCALE" :> "Fraude fiscale") @@
             ("BLANCHIMENT" :> "Blanchiment") @@
             ("TRAFIC_INFLUENCE" :> "Trafic d'influence") @@
             ("PRISE_ILLEGALE_INTERET" :> "Prise illegale d'interets") @@
             ("VIOLENCE" :> "Violence") @@
             ("HARCELEMENT_SEXUEL" :> "Harcelement sexuel") @@
             ("AGRESSION_SEXUELLE" :> "Agression sexuelle") @@
             ("VIOL" :> "Viol") @@
             ("DIFFAMATION" :> "Diffamation") @@
             ("ABUS_BIENS_SOCIAUX" :> "Abus de biens sociaux") @@
             ("DETOURNEMENT_FONDS" :> "Detournement de fonds") @@
             ("EMPLOI_FICTIF" :> "Emploi fictif") @@
             ("FINANCEMENT_ILLEGAL" :> "Financement illegal") @@
             ("HARCELEMENT_MORAL" :> "Harcelement moral") @@
             ("MENACE" :> "Menace") @@
             ("OUTRAGE" :> "Outrage") @@
             ("RECEL" :> "Recel"),
             category)

\* formatMandateType of tools/politicians.ts
formatMandateType_politicians(type) ==
  PropertyOr(("DEPUTE" :> "Depute(e)") @@
             ("SENATEUR" :> "Senateur/trice") @@
             ("DEPUTE_EUROPEEN" :> "Depute(e) europeen(ne)") @@
             ("PRESIDENT" :> "President(e) de la Republique") @@
             ("PREMIER_MINISTRE" :> "Premier(e) ministre") @@
             ("MINISTRE" :> "Ministre") @@
             ("MINISTRE_DELEGUE" :> "Ministre delegue(e)") @@
             ("SECRETAIRE_ETAT" :> "Secretaire d'Etat") @@
             ("MAIRE" :> "Maire") @@
             ("PRESIDENT_REGION" :> "President(e) de region") @@
             ("PRESIDENT_DEPARTEMENT" :> "President(e) de departement") @@
             ("CONSEILLER_REGIONAL" :> "Conseiller/ere regional(e)") @@
             ("CONSEILLER_DEPARTEMENTAL" :> "Conseiller/ere departemental(e)") @@
             ("CONSEILLER_MUNICIPAL" :> "Conseiller/ere municipal(e)") @@
             ("PRESIDENT_PARTI" :> "President(e) de parti"),
             type)

\* formatMandateType of tools/mandates.ts
formatMandateType_mandates(type) ==
  PropertyOr(("DEPUTE" :> "Depute(e)") @@
             ("SENATEUR" :> "Senateur/trice") @@
             ("DEPUTE_EUROPEEN" :> "Depute(e) europeen(ne)") @@
             ("PRESIDENT_REPUBLIQUE" :> "President(e) de la Republique") @@
             ("PREMIER_MINISTRE" :> "Premier(e) ministre") @@
             ("MINISTRE" :> "Ministre") @@
             ("MINISTRE_DELEGUE" :> "Ministre delegue(e)") @@
             ("SECRETAIRE_ETAT" :> "Secretaire d'Etat") @@
             ("MAIRE" :> "Maire") @@
             ("ADJOINT_MAIRE" :> "Adjoint(e) au maire") @@
             ("PRESIDENT_REGION" :> "President(e) de region") @@
             ("PRESIDENT_DEPARTEMENT" :> "President(e) de departement") @@
             ("CONSEILLER_REGIONAL" :> "Conseiller/ere regional(e)") @@
             ("CONSEILLER_DEPARTEMENTAL" :> "Conseiller/ere departemental(e)") @@
             ("CONSEILLER_MUNICIPAL" :> "Conseiller/ere municipal(e)") @@
             ("PRESIDENT_PARTI" :> "President(e) de parti"),
             type)

\* formatMandateType of tools/parties.ts
formatMandateType_parties(type) ==
  PropertyOr(("DEPUTE" :> "Depute(e)") @@
             ("SENATEUR" :> "Senateur/trice") @@
             ("DEPUTE_EUROPEEN" :> "Depute(e) europeen(ne)") @@
             ("PRESIDENT" :> "President(e) de la Republique") @@
             ("PREMIER_MINISTRE" :> "Premier(e) ministre") @@
             ("MINISTRE" :> "Ministre") @@
             ("MINISTRE_DELEGUE" :> "Ministre delegue(e)") @@
             ("SECRETAIRE_ETAT" :> "Secretaire d'Etat") @@
             ("MAIRE" :> "Maire") @@
             ("PRESIDENT_REGION" :> "President(e) de region") @@
             ("PRESIDENT_DEPARTEMENT" :> "President(e) de departement") @@
             ("PRESIDENT_PARTI" :> "President(e) de parti"),
             type)

\* formatMandateType of tools/legislation.ts (search_advanced)
formatMandateType_legislation(type) ==
  PropertyOr(("DEPUTE" :> "Depute(e)") @@
             ("SENATEUR" :> "Senateur/trice") @@
             ("DEPUTE_EUROPEEN" :> "Depute(e) europeen(ne)") @@
             ("PRESIDENT" :> "President(e) de la Republique") @@
             ("PREMIER_MINISTRE" :> "Premier(e) ministre") @@
             ("MINISTRE" :> "Ministre") @@
             ("MINISTRE_DELEGUE" :> "Ministre delegue(e)") @@
             ("SECRETAIRE_ETAT" :> "Secretaire d'Etat") @@
             ("MAIRE" :> "Maire") @@
             ("PRESIDENT_REGION" :> "President(e) de region") @@
             ("PRESIDENT_DEPARTEMENT" :> "President(e) de departement"),
             type)

formatRelationType(type) ==
  PropertyOr(("SAME_GOVERNMENT" :> "Meme gouvernement") @@
             ("SHARED_COMPANY" :> "Entreprises en commun") @@
             ("SAME_DEPARTMENT" :> "Meme departement") @@
             ("PARTY_HISTORY" :> "Anciens collegues de parti"),
             type)

formatVerdict(rating) ==
  PropertyOr(("TRUE" :> "Vrai") @@
             ("MOSTLY_TRUE" :> "Plutot vrai") @@
             ("HALF_TRUE" :> "A moitie vrai") @@
             ("MISLEADING" :> "Trompeur") @@
             ("OUT_OF_CONTEXT" :> "Hors contexte") @@
             ("MOSTLY_FALSE" :> "Plutot faux") @@
             ("FALSE" :> "Faux") @@
             ("UNVERIFIABLE" :> "Inverifiable"),
             rating)

\* formatPosition of tools/votes.ts (a vote position)
formatPosition_votes(position) ==
  PropertyOr(("POUR" :> "Pour") @@
             ("CONTRE" :> "Contre") @@
             ("ABSTENTION" :> "Abstention") @@
             ("NON_VOTANT" :> "Non votant") @@
             ("ABSENT" :> "Absent"),
             position)

\* formatPosition of tools/parties.ts (a political position, string | null)
formatPosition_parties(position) ==
  IF ~Truthy(position) THEN "Non classe"
  ELSE PropertyOr(("FAR_LEFT" :> "Extreme gauche") @@
                  ("LEFT" :> "Gauche") @@
                  ("CENTER_LEFT" :> "Centre-gauche") @@
                  ("CENTER" :> "Centre") @@
                  ("CENTER_RIGHT" :> "Centre-droit") @@
                  ("RIGHT" :> "Droite") @@
                  ("FAR_RIGHT" :> "Extreme droite"),
                  position.s)

\* formatResult gone wrong: a result the layer does not know is passed through
formatResult_rawUnknown(result_) ==
  IF result_ = "ADOPTED" THEN "Adopte"
  ELSE IF result_ = "REJECTED" THEN "Rejete" ELSE result_

formatResult(result_) == IF result_ = "ADOPTED" THEN "Adopte" ELSE "Rejete"

\* the dates of the model's calendar
CalendarYears == {1977, 2024}
CalendarDays == {1, 7, 21, 28}
Calendar == [year : CalendarYears, month : 1..12, day : CalendarDays]

Pad2(n) == IF n < 10 THEN "0" \o ToString(n) ELSE ToString(n)

\* the ISO forms upstream sends a date in: date only, or date and time (UTC)
IsoDate(date) ==
  ToString(date.year) \o "-" \o Pad2(date.month) \o "-" \o Pad2(date.day)
IsoDateTime(date) == IsoDate(date) \o "T00:00:00.000Z"

\* the strings new Date(..) makes a valid date of, and the date it makes
ParseableDates == {IsoDate(date) : date \in Calendar} \cup
                  {IsoDateTime(date) : date \in Calendar}
DateParse(isoDate) ==
  CHOOSE date \in Calendar : isoDate \in {IsoDate(date), IsoDateTime(date)}

MonthNames ==
  <<"janvier", "fevrier", "mars", "avril", "mai", "juin", "juillet", "aout",
    "septembre", "octobre", "novembre", "decembre">>

\* date.toLocaleDateString("fr-FR", {day: "numeric", month: "long", year: "numeric"})
toLocaleDateString(date) ==
  ToString(date.day) \o " " \o MonthNames[date.month] \o " " \o ToString(date.year)

\* the French long form of every string that parses as a date
FrenchLongDate ==
  [isoDate \in ParseableDates |-> toLocaleDateString(DateParse(isoDate))]

\* formatDate without the isNaN test: an invalid date is formatted as it is
formatDate_noNaNTest(isoDate) ==
  IF ~Truthy(isoDate) THEN "--"
  ELSE IF isoDate.s \in DOMAIN FrenchLongDate THEN FrenchLongDate[isoDate.s]
  ELSE "Invalid Date"

\* formatDate: "--" stands for the long-dash placeholder
formatDate(isoDate) ==
  IF ~Truthy(isoDate) THEN "--"
  ELSE IF isoDate.s \in DOMAIN FrenchLongDate THEN FrenchLongDate[isoDate.s]
  ELSE isoDate.s

-----------------------------------------------------------------------------
(* tools/affairs.ts: rendering.  A narrative is the sequence of its lines  *)
(* (the text is the lines joined by newlines); a nullable field holds a    *)
(* value record: Null, S(..) or an object record.                          *)

PRESUMPTION_NOTICE ==
  "**Rappel** : Toute personne mise en examen est presumee innocente jusqu'a ce que sa culpabilite ait ete etablie par une decision de justice definitive."

\* needsPresumption gone wrong: the appeal in progress is forgotten
needsPresumption_noAppeal(status) ==
  status \in {"ENQUETE_PRELIMINAIRE", "MISE_EN_EXAMEN", "PROCES_EN_COURS"}

needsPresumption(status) ==
  status \in {"ENQUETE_PRELIMINAIRE", "MISE_EN_EXAMEN", "PROCES_EN_COURS",
              "APPEL_EN_COURS"}

\* the line of one source of an affair
SourceLine(s) ==
  "- [" \o s.title \o "](" \o s.url \o ") -- " \o s.publisher \o
  (IF Truthy(s.publishedAt) THEN " (" \o formatDate(s.publishedAt) \o ")" ELSE "")

formatAffairDetail(affair, politicianName) ==
  <<"### " \o affair.title>> \o
  (IF Truthy(politicianName)
   THEN <<"**Politicien** : " \o politicianName.s>> ELSE <<>>) \o
  <<"**Statut** : " \o formatStatus(affair.status),
    "**Categorie** : " \o formatCategory(affair.category)>> \o
  (IF Truthy(affair.factsDate)
   THEN <<"**Date des faits** : " \o formatDate(affair.factsDate)>> ELSE <<>>) \o
  (IF Truthy(affair.startDate)
   THEN <<"**Debut de procedure** : " \o formatDate(affair.startDate)>> ELSE <<>>) \o
  (IF Truthy(affair.verdictDate)
   THEN <<"**Verdict** : " \o formatDate(affair.verdictDate)>> ELSE <<>>) \o
  (IF Truthy(affair.sentence)
   THEN <<"**Peine** : " \o affair.sentence.s>> ELSE <<>>) \o
  (IF Truthy(affair.appeal)
   THEN <<"**Appel** : " \o affair.appeal.s>> ELSE <<>>) \o
  (IF Truthy(affair.partyAtTime)
   THEN <<"**Parti au moment des faits** : " \o affair.partyAtTime.name \o
          " (" \o affair.partyAtTime.shortName \o ")">>
   ELSE <<>>) \o
  <<"", affair.description>> \o
  (IF Len(affair.sources) > 0
   THEN <<"", "**Sources** :">> \o
        [i \in 1..Len(affair.sources) |-> SourceLine(affair.sources[i])]
   ELSE <<>>) \o
  (IF needsPresumption(affair.status) THEN <<"", PRESUMPTION_NOTICE>> ELSE <<>>)

\* PageHint gone wrong: the hint names the page just shown
PageHint_samePage(page) == "_Page suivante : page=" \o ToString(page) \o "_"

\* the next-page hint line, worded alike in every paginated handler
PageHint(page) == "_Page suivante : page=" \o ToString(page + 1) \o "_"

\* the sources of an affair as the structured content lists them
StructuredSources(sources) ==
  [i \in 1..Len(sources) |->
     [url |-> sources[i].url, title |-> sources[i].title,
      publisher |-> sources[i].publisher]]

Render_list_affairs(a, data) ==
  [kind |-> "ok",
   text |->
     <<"**" \o ToString(data.pagination.total) \o " affaires** (page " \o
       ToString(data.pagination.page) \o "/" \o
       ToString(data.pagination.totalPages) \o ")", "">> \o
     Flatten([i \in 1..Len(data.data) |->
       formatAffairDetail(data.data[i],
         S(data.data[i].politician.fullName \o
           (IF Truthy(data.data[i].politician.currentParty)
            THEN " (" \o data.data[i].politician.currentParty.shortName \o ")"
            ELSE ""))) \o
       <<"", "---", "">>]) \o
     (IF data.pagination.page < data.pagination.totalPages
      THEN <<PageHint(data.pagination.page)>> ELSE <<>>),
   structuredContent |->
     [total |-> data.pagination.total,
      page |-> data.pagination.page,
      totalPages |-> data.pagination.totalPages,
      items |-> [i \in 1..Len(data.data) |->
        [slug |-> data.data[i].slug,
         title |-> data.data[i].title,
         status |-> data.data[i].status,
         category |-> data.data[i].category,
         politician |-> [slug |-> data.data[i].politician.slug,
                         fullName |-> data.data[i].politician.fullName],
         factsDate |-> data.data[i].factsDate,
         startDate |-> data.data[i].startDate,
         verdictDate |-> data.data[i].verdictDate,
         sentence |-> data.data[i].sentence,
         sources |-> StructuredSources(data.data[i].sources)]]]]

Render_get_politician_affairs(a, data) ==
  [kind |-> "ok",
   text |->
     <<"# Affaires judiciaires -- " \o data.politician.fullName \o
       (IF Truthy(data.politician.party)
        THEN " (" \o data.politician.party.name \o ")" ELSE ""),
       "**" \o ToString(data.total) \o " affaire(s)**", "">> \o
     (IF \E i \in 1..Len(data.affairs) : needsPresumption(data.affairs[i].status)
      THEN <<PRESUMPTION_NOTICE, "">> ELSE <<>>) \o
     Flatten([i \in 1..Len(data.affairs) |->
       formatAffairDetail(data.affairs[i], Undef) \o <<"", "---", "">>]) \o
     <<"https://poligraph.fr/politiques/" \o data.politician.slug>>,
   structuredContent |->
     [politician |->
        [slug |-> data.politician.slug,
         fullName |-> data.politician.fullName,
         party |-> IF Truthy(data.politician.party)
                   THEN [t |-> "object", name |-> data.politician.party.name,
                         shortName |-> data.politician.party.shortName]
                   ELSE Null],
      total |-> data.total,
      affairs |-> [i \in 1..Len(data.affairs) |->
        [slug |-> data.affairs[i].slug,
         title |-> data.affairs[i].title,
         status |-> data.affairs[i].status,
         category |-> data.affairs[i].category,
         factsDate |-> data.affairs[i].factsDate,
         startDate |-> data.affairs[i].startDate,
         verdictDate |-> data.affairs[i].verdictDate,
         sentence |-> data.affairs[i].sentence,
         sources |-> StructuredSources(data.affairs[i].sources)]],
      url |-> "https://poligraph.fr/politiques/" \o data.politician.slug]]

-----------------------------------------------------------------------------
(* tools/votes.ts: rendering.                                              *)

\* Math.round((part / total) * 100) for natural numbers, 0 when total is 0
Percent(part, total) ==
  IF total = 0 THEN 0 ELSE (200 * part + total) \div (2 * total)

\* Slice gone wrong: one entry more than asked for
Slice_oneMore(seq, n) == SubSeq(seq, 1, IF Len(seq) < n + 1 THEN Len(seq) ELSE n + 1)

\* array.slice(0, n)
Slice(seq, n) == SubSeq(seq, 1, IF Len(seq) < n THEN Len(seq) ELSE n)

Render_list_votes(a, data) ==
  [kind |-> "ok",
   text |->
     <<"**" \o ToString(data.pagination.total) \o " scrutins** (page " \o
       ToString(data.pagination.page) \o "/" \o
       ToString(data.pagination.totalPages) \o ")", "">> \o
     Flatten([i \in 1..Len(data.data) |->
       <<"- **" \o data.data[i].title \o "** (" \o
           formatDate(S(data.data[i].votingDate)) \o ")",
         "  " \o formatResult(data.data[i].result) \o " -- Pour: " \o
           ToString(data.data[i].votesFor) \o ", Contre: " \o
           ToString(data.data[i].votesAgainst) \o ", Abstention: " \o
           ToString(data.data[i].votesAbstain)>>]) \o
     (IF data.pagination.page < data.pagination.totalPages
      THEN <<"", PageHint(data.pagination.page)>> ELSE <<>>),
   structuredContent |->
     [total |-> data.pagination.total,
      page |-> data.pagination.page,
      totalPages |-> data.pagination.totalPages,
      items |-> [i \in 1..Len(data.data) |->
        [title |-> data.data[i].title,
         votingDate |-> data.data[i].votingDate,
         legislature |-> data.data[i].legislature,
         result |-> data.data[i].result,
         votesFor |-> data.data[i].votesFor,
         votesAgainst |-> data.data[i].votesAgainst,
         votesAbstain |-> data.data[i].votesAbstain,
         sourceUrl |-> data.data[i].sourceUrl]]]]

Render_get_politician_votes(a, data) ==
  [kind |-> "ok",
   text |->
     <<"# Votes -- " \o data.politician.fullName \o
       (IF Truthy(data.politician.party)
        THEN " (" \o data.politician.party.name \o ")" ELSE ""),
       "",
       "## Statistiques",
       "- **Total** : " \o ToString(data.stats.total) \o " votes",
       "- **Pour** : " \o ToString(data.stats.pour) \o " (" \o
         ToString(Percent(data.stats.pour, data.stats.total)) \o "%)",
       "- **Contre** : " \o ToString(data.stats.contre) \o " (" \o
         ToString(Percent(data.stats.contre, data.stats.total)) \o "%)",
       "- **Abstention** : " \o ToString(data.stats.abstention),
       "- **Absent** : " \o ToString(data.stats.absent),
       "- **Taux de participation** : " \o
         ToString(data.stats.participationRate) \o "%",
       "",
       "## Derniers votes (page " \o ToString(data.pagination.page) \o "/" \o
         ToString(data.pagination.totalPages) \o ")">> \o
     Flatten([i \in 1..Len(data.votes) |->
       <<"- **" \o data.votes[i].scrutin.title \o "** (" \o
           formatDate(S(data.votes[i].scrutin.votingDate)) \o ")",
         "  Vote : " \o formatPosition_votes(data.votes[i].position) \o
           " -- Resultat : " \o formatResult(data.votes[i].scrutin.result)>>]) \o
     (IF data.pagination.page < data.pagination.totalPages
      THEN <<"", PageHint(data.pagination.page)>> ELSE <<>>),
   structuredContent |->
     [politician |-> [slug |-> data.politician.slug,
                      fullName |-> data.politician.fullName],
      stats |-> data.stats,
      votes |-> [i \in 1..Len(data.votes) |->
        [position |-> data.votes[i].position,
         scrutin |->
           [title |-> data.votes[i].scrutin.title,
            votingDate |-> data.votes[i].scrutin.votingDate,
            result |-> data.votes[i].scrutin.result,
            votesFor |-> data.votes[i].scrutin.votesFor,
            votesAgainst |-> data.votes[i].scrutin.votesAgainst,
            votesAbstain |-> data.votes[i].scrutin.votesAbstain]]],
      page |-> data.pagination.page,
      totalPages |-> data.pagination.totalPages]]

\* x put into the descending sequence sorted, behind the elements whose key
\* is at least its own
InsertDesc(sorted, x, key) ==
  LET k == Cardinality({j \in 1..Len(sorted) : sorted[j][key] >= x[key]})
  IN SubSeq(sorted, 1, k) \o <<x>> \o SubSeq(sorted, k + 1, Len(sorted))

RECURSIVE SortDescPrefix(_, _, _)
\* the first n elements of seq, sorted
SortDescPrefix(seq, n, key) ==
  IF n = 0 THEN <<>>
  ELSE InsertDesc(SortDescPrefix(seq, n - 1, key), seq[n], key)

\* [...seq].sort((a, b) => b[key] - a[key]): descending and stable
SortDesc(seq, key) == SortDescPrefix(seq, Len(seq), key)

Render_get_vote_stats(a, data) ==
  [kind |-> "ok",
   text |->
     <<"# Statistiques de vote -- " \o
         (IF a.chamber = S("AN") THEN "Assemblee nationale"
          ELSE IF a.chamber = S("SENAT") THEN "Senat" ELSE "Toutes chambres"),
       "",
       "## Vue globale",
       "- **Total scrutins** : " \o ToString(data.global.totalScrutins),
       "- **Total votes** : " \o ToString(data.global.totalVotes),
       "- Pour : " \o ToString(data.global.totalVotesFor),
       "- Contre : " \o ToString(data.global.totalVotesAgainst),
       "- Abstention : " \o ToString(data.global.totalVotesAbstain),
       "- **Adoptes** : " \o ToString(data.global.adoptes) \o
         " -- **Rejetes** : " \o ToString(data.global.rejetes),
       "- **Taux de participation** : " \o
         ToString(data.global.participationRate) \o "%",
       "",
       "## Cohesion par parti">> \o
     (LET sorted == SortDesc(data.parties, "cohesionRate")
      IN [i \in 1..Len(sorted) |->
            "- **" \o sorted[i].partyShortName \o "** (" \o sorted[i].partyName \o
            ") : " \o ToString(sorted[i].cohesionRate) \o "% de cohesion (" \o
            ToString(sorted[i].totalVotes) \o " votes)"]) \o
     <<"">> \o
     (IF Len(data.divisiveScrutins) > 0
      THEN <<"## Scrutins les plus divisifs">> \o
           Flatten([i \in 1..Len(Slice(data.divisiveScrutins, 10)) |->
             <<"- **" \o data.divisiveScrutins[i].title \o "** (" \o
                 formatDate(S(data.divisiveScrutins[i].votingDate)) \o ")",
               "  Pour: " \o ToString(data.divisiveScrutins[i].votesFor) \o
                 ", Contre: " \o ToString(data.divisiveScrutins[i].votesAgainst) \o
                 ", Abstention: " \o
                 ToString(data.divisiveScrutins[i].votesAbstain) \o
                 " -- Score de division : " \o
                 ToString(data.divisiveScrutins[i].divisionScore) \o "%">>])
      ELSE <<>>),
   structuredContent |->
     [global |-> data.global,
      parties |-> [i \in 1..Len(data.parties) |->
        [shortName |-> data.parties[i].partyShortName,
         name |-> data.parties[i].partyName,
         cohesionRate |-> data.parties[i].cohesionRate,
         participationRate |-> data.parties[i].participationRate,
         totalVotes |-> data.parties[i].totalVotes]],
      divisiveScrutins |->
        [i \in 1..Len(Slice(data.divisiveScrutins, 10)) |->
          [title |-> data.divisiveScrutins[i].title,
           votingDate |-> data.divisiveScrutins[i].votingDate,
           votesFor |-> data.divisiveScrutins[i].votesFor,
           votesAgainst |-> data.divisiveScrutins[i].votesAgainst,
           votesAbstain |-> data.divisiveScrutins[i].votesAbstain,
           divisionScore |-> data.divisiveScrutins[i].divisionScore]]]]

-----------------------------------------------------------------------------
(* tools/politicians.ts: rendering.                                        *)

formatPoliticianSummary(p) ==
  "- **" \o p.fullName \o "**" \o
  (IF Truthy(p.currentParty) THEN " (" \o p.currentParty.shortName \o ")" ELSE "") \o
  (IF Truthy(p.deathDate) THEN " [Decede(e)]" ELSE "") \o
  " -- /politiques/" \o p.slug

\* FilterCurrent gone wrong: a mandate that is not current passes both filters
FilterCurrent_pastInBoth(mandates, flag) ==
  SelectSeq(mandates, LAMBDA m : m.isCurrent = flag \/ ~m.isCurrent)

\* array.filter(keep) for the mandates whose isCurrent equals flag
RECURSIVE FilterCurrent(_, _)
FilterCurrent(mandates, flag) ==
  IF mandates = <<>> THEN <<>>
  ELSE (IF Head(mandates).isCurrent = flag THEN <<Head(mandates)>> ELSE <<>>) \o
       FilterCurrent(Tail(mandates), flag)

\* the line of one mandate of the politician sheet
MandateLine(m) ==
  "- " \o formatMandateType_politicians(m.type) \o " : " \o m.title \o
  (IF Truthy(m.constituency) THEN " -- " \o m.constituency.s ELSE "") \o
  (IF m.isCurrent
   THEN " (depuis " \o formatDate(S(m.startDate)) \o ")"
   ELSE " (" \o formatDate(S(m.startDate)) \o " -> " \o formatDate(m.endDate) \o ")")

formatPoliticianDetail(p) ==
  <<"# " \o p.fullName>> \o
  (IF Truthy(p.currentParty)
   THEN <<"**Parti** : " \o p.currentParty.name \o " (" \o
          p.currentParty.shortName \o ")">>
   ELSE <<>>) \o
  <<"**" \o (IF p.civility = "Mme" THEN "Nee" ELSE "Ne") \o "** le " \o
    formatDate(S(p.birthDate)) \o " a " \o p.birthPlace>> \o
  (IF Truthy(p.deathDate)
   THEN <<"**Decede(e)** le " \o formatDate(p.deathDate)>> ELSE <<>>) \o
  (IF Len(p.mandates) > 0
   THEN <<"", "## Mandats">> \o
        (LET current == FilterCurrent(p.mandates, TRUE)
             past == FilterCurrent(p.mandates, FALSE)
         IN (IF Len(current) > 0
             THEN <<"### En cours">> \o
                  [i \in 1..Len(current) |-> MandateLine(current[i])]
             ELSE <<>>) \o
            (IF Len(past) > 0
             THEN <<"### Anciens mandats">> \o
                  [i \in 1..Len(past) |-> MandateLine(past[i])]
             ELSE <<>>))
   ELSE <<>>) \o
  (IF Len(p.declarations) > 0
   THEN <<"", "## Declarations HATVP">> \o
        [i \in 1..Len(p.declarations) |->
           "- " \o p.declarations[i].type \o " (" \o
           ToString(p.declarations[i].year) \o ") : " \o p.declarations[i].url]
   ELSE <<>>) \o
  (IF p.affairsCount > 0
   THEN <<"", "## Affaires judiciaires : " \o ToString(p.affairsCount),
          "Utilisez l'outil get_politician_affairs avec le slug \"" \o p.slug \o
          "\" pour les details.">>
   ELSE <<>>) \o
  (IF Truthy(p.factchecksCount) /\ p.factchecksCount.n > 0
   THEN <<"", "## Fact-checks : " \o ToString(p.factchecksCount.n),
          "Utilisez l'outil get_politician_factchecks avec le slug \"" \o p.slug \o
          "\" pour les details.">>
   ELSE <<>>) \o
  <<"", "https://poligraph.fr/politiques/" \o p.slug>>

\* currentParty ? { name, shortName } : null
PartyRef(party) ==
  IF Truthy(party)
  THEN [t |-> "object", name |-> party.name, shortName |-> party.shortName]
  ELSE Null

Render_search_politicians(a, data) ==
  [kind |-> "ok",
   text |->
     <<"**" \o ToString(data.pagination.total) \o " resultats** (page " \o
       ToString(data.pagination.page) \o "/" \o
       ToString(data.pagination.totalPages) \o ")", "">> \o
     [i \in 1..Len(data.data) |-> formatPoliticianSummary(data.data[i])] \o
     (IF data.pagination.page < data.pagination.totalPages
      THEN <<"", PageHint(data.pagination.page)>> ELSE <<>>),
   structuredContent |->
     [total |-> data.pagination.total,
      page |-> data.pagination.page,
      totalPages |-> data.pagination.totalPages,
      items |-> [i \in 1..Len(data.data) |->
        [slug |-> data.data[i].slug,
         fullName |-> data.data[i].fullName,
         party |-> PartyRef(data.data[i].currentParty),
         birthDate |-> data.data[i].birthDate,
         deathDate |-> data.data[i].deathDate,
         url |-> "https://poligraph.fr/politiques/" \o data.data[i].slug]]]]

Render_get_politician(a, data) ==
  [kind |-> "ok",
   text |-> formatPoliticianDetail(data),
   structuredContent |->
     [slug |-> data.slug,
      fullName |-> data.fullName,
      civility |-> data.civility,
      birthDate |-> data.birthDate,
      deathDate |-> data.deathDate,
      birthPlace |-> data.birthPlace,
      photoUrl |-> data.photoUrl,
      party |-> PartyRef(data.currentParty),
      mandates |-> [i \in 1..Len(data.mandates) |->
        [type |-> data.mandates[i].type,
         title |-> data.mandates[i].title,
         institution |-> data.mandates[i].institution,
         constituency |-> data.mandates[i].constituency,
         startDate |-> data.mandates[i].startDate,
         endDate |-> data.mandates[i].endDate,
         isCurrent |-> data.mandates[i].isCurrent]],
      declarations |-> [i \in 1..Len(data.declarations) |->
        [type |-> data.declarations[i].type,
         year |-> data.declarations[i].year,
         url |-> data.declarations[i].url]],
      affairsCount |-> data.affairsCount,
      factchecksCount |-> IF data.factchecksCount.t = "number"
                          THEN data.factchecksCount.n ELSE 0,
      url |-> "https://poligraph.fr/politiques/" \o data.slug]]

\* the line of one node of a relation cluster
RelationNodeLine(n) ==
  "- **" \o n.fullName \o "**" \o
  (IF Truthy(n.party) THEN " (" \o n.party.shortName \o ")" ELSE "") \o
  (IF n.mandateType # ""
   THEN " -- " \o formatMandateType_politicians(n.mandateType) ELSE "")

\* the nodes of the last cluster of the given type, as relationsByType keeps them
RelationsOfType(clusters, type) ==
  LET last == CHOOSE i \in 1..Len(clusters) :
                /\ clusters[i].type = type
                /\ \A j \in (i + 1)..Len(clusters) : clusters[j].type # type
  IN [k \in 1..Len(clusters[last].nodes) |->
        [slug |-> clusters[last].nodes[k].slug,
         fullName |-> clusters[last].nodes[k].fullName,
         party |-> IF Truthy(clusters[last].nodes[k].party)
                   THEN S(clusters[last].nodes[k].party.shortName) ELSE Null]]

Render_get_politician_relations(a, data) ==
  [kind |-> "ok",
   text |->
     <<"# Relations -- " \o data.center.fullName \o
       (IF Truthy(data.center.party)
        THEN " (" \o data.center.party.shortName \o ")" ELSE ""),
       "**" \o ToString(data.stats.totalConnections) \o " connexions**", "">> \o
     Flatten([i \in 1..Len(data.clusters) |->
       <<"## " \o data.clusters[i].label \o " -- " \o
         formatRelationType(data.clusters[i].type) \o " (" \o
         ToString(Len(data.clusters[i].nodes)) \o ")">> \o
       [k \in 1..Len(Slice(data.clusters[i].nodes, 15)) |->
          RelationNodeLine(data.clusters[i].nodes[k])] \o
       (IF Len(data.clusters[i].nodes) > 15
        THEN <<"_... et " \o ToString(Len(data.clusters[i].nodes) - 15) \o
               " autres_">>
        ELSE <<>>) \o
       <<"">>]) \o
     <<"https://poligraph.fr/politiques/" \o data.center.slug \o "/relations">>,
   structuredContent |->
     [center |-> [slug |-> data.center.slug, fullName |-> data.center.fullName],
      totalConnections |-> data.stats.totalConnections,
      byType |-> data.stats.byType,
      relations |->
        [type \in {data.clusters[i].type : i \in 1..Len(data.clusters)} |->
           RelationsOfType(data.clusters, type)],
      url |-> "https://poligraph.fr/politiques/" \o data.center.slug \o
              "/relations"]]

-----------------------------------------------------------------------------
(* tools/mandates.ts and tools/parties.ts: rendering.                      *)

Render_list_mandates(a, data) ==
  [kind |-> "ok",
   text |->
     <<"**" \o ToString(data.pagination.total) \o " mandats** (page " \o
       ToString(data.pagination.page) \o "/" \o
       ToString(data.pagination.totalPages) \o ")", "">> \o
     Flatten([i \in 1..Len(data.data) |->
       <<"- **" \o data.data[i].politician.fullName \o "** : " \o
           formatMandateType_mandates(data.data[i].type) \o
           (IF Truthy(data.data[i].institution)
            THEN " -- " \o data.data[i].institution.s ELSE "") \o
           (IF Truthy(data.data[i].constituency)
            THEN " -- " \o data.data[i].constituency.s ELSE ""),
         "  " \o
           (IF data.data[i].isCurrent THEN "En cours"
            ELSE "Termine (" \o formatDate(data.data[i].endDate) \o ")") \o
           " -- depuis " \o formatDate(S(data.data[i].startDate)),
         "  /politiques/" \o data.data[i].politician.slug>>]) \o
     (IF data.pagination.page < data.pagination.totalPages
      THEN <<"", PageHint(data.pagination.page)>> ELSE <<>>),
   structuredContent |-> Undef]

Render_list_parties(a, data) ==
  [kind |-> "ok",
   text |->
     <<"**" \o ToString(data.pagination.total) \o " partis** (page " \o
       ToString(data.pagination.page) \o "/" \o
       ToString(data.pagination.totalPages) \o ")", "">> \o
     Flatten([i \in 1..Len(data.data) |->
       <<"- **" \o data.data[i].name \o "** (" \o data.data[i].shortName \o
           ") -- " \o formatPosition_parties(data.data[i].politicalPosition) \o
           ", " \o ToString(data.data[i].memberCount) \o " membre(s)" \o
           (IF Truthy(data.data[i].dissolvedDate) THEN " [Dissous]" ELSE ""),
         "  /partis/" \o data.data[i].slug>>]) \o
     (IF data.pagination.page < data.pagination.totalPages
      THEN <<"", PageHint(data.pagination.page)>> ELSE <<>>),
   structuredContent |->
     [total |-> data.pagination.total,
      page |-> data.pagination.page,
      totalPages |-> data.pagination.totalPages,
      items |-> [i \in 1..Len(data.data) |->
        [slug |-> data.data[i].slug,
         name |-> data.data[i].name,
         shortName |-> data.data[i].shortName,
         politicalPosition |-> data.data[i].politicalPosition,
         memberCount |-> data.data[i].memberCount,
         dissolvedDate |-> data.data[i].dissolvedDate,
         url |-> "https://poligraph.fr/partis/" \o data.data[i].slug]]]]

\* members.filter: those whose currentMandate is truthy (flag) or not (~flag)
RECURSIVE FilterMandate(_, _)
FilterMandate(members, flag) ==
  IF members = <<>> THEN <<>>
  ELSE (IF Truthy(Head(members).currentMandate) = flag
        THEN <<Head(members)>> ELSE <<>>) \o
       FilterMandate(Tail(members), flag)

\* the line of one member who holds a mandate
MemberLine(m) ==
  "- **" \o m.fullName \o "**" \o
  (IF Truthy(m.currentMandate)
   THEN " -- " \o formatMandateType_parties(m.currentMandate.type) ELSE "") \o
  (IF m.affairsCount > 0
   THEN " [" \o ToString(m.affairsCount) \o " affaire(s)]" ELSE "")

\* the members section of the party sheet
MembersSection(members) ==
  IF Len(members) > 0
  THEN LET withMandate == FilterMandate(members, TRUE)
           withoutMandate == FilterMandate(members, FALSE)
       IN <<"", "## Membres (" \o ToString(Len(members)) \o ")">> \o
          (IF Len(withMandate) > 0
           THEN <<"### Avec mandat actuel">> \o
                [i \in 1..Len(Slice(withMandate, 30)) |-> MemberLine(withMandate[i])] \o
                (IF Len(withMandate) > 30
                 THEN <<"_... et " \o ToString(Len(withMandate) - 30) \o
                        " autres avec mandat_">>
                 ELSE <<>>)
           ELSE <<>>) \o
          (IF Len(withoutMandate) > 0
           THEN <<"### Anciens (" \o ToString(Len(withoutMandate)) \o ")">> \o
                [i \in 1..Len(Slice(withoutMandate, 10)) |->
                   "- " \o withoutMandate[i].fullName] \o
                (IF Len(withoutMandate) > 10
                 THEN <<"_... et " \o ToString(Len(withoutMandate) - 10) \o
                        " autres_">>
                 ELSE <<>>)
           ELSE <<>>)
  ELSE <<>>

Render_get_party(a, data) ==
  [kind |-> "ok",
   text |->
     <<"# " \o data.name \o " (" \o data.shortName \o ")",
       "**Position** : " \o formatPosition_parties(data.politicalPosition),
       "**Membres** : " \o ToString(data.memberCount)>> \o
     (IF Truthy(data.foundedDate)
      THEN <<"**Fonde** le " \o formatDate(data.foundedDate)>> ELSE <<>>) \o
     (IF Truthy(data.dissolvedDate)
      THEN <<"**Dissous** le " \o formatDate(data.dissolvedDate)>> ELSE <<>>) \o
     (IF Truthy(data.website)
      THEN <<"**Site web** : " \o data.website.s>> ELSE <<>>) \o
     (IF Truthy(data.ideology)
      THEN <<"**Ideologie** : " \o data.ideology.s>> ELSE <<>>) \o
     (IF Truthy(data.description) THEN <<"", data.description.s>> ELSE <<>>) \o
     (IF Truthy(data.predecessor)
      THEN <<"", "**Succede a** : " \o data.predecessor.name \o " (" \o
             data.predecessor.shortName \o ") -- /partis/" \o
             data.predecessor.slug>>
      ELSE <<>>) \o
     [i \in 1..Len(data.successors) |->
        "**Succede par** : " \o data.successors[i].name \o " (" \o
        data.successors[i].shortName \o ") -- /partis/" \o
        data.successors[i].slug] \o
     MembersSection(data.members) \o
     <<"", "https://poligraph.fr/partis/" \o data.slug>>,
   structuredContent |->
     [slug |-> data.slug,
      name |-> data.name,
      shortName |-> data.shortName,
      politicalPosition |-> data.politicalPosition,
      memberCount |-> data.memberCount,
      foundedDate |-> data.foundedDate,
      dissolvedDate |-> data.dissolvedDate,
      website |-> data.website,
      ideology |-> data.ideology,
      description |-> data.description,
      predecessor |->
        IF Truthy(data.predecessor)
        THEN [t |-> "object", slug |-> data.predecessor.slug,
              name |-> data.predecessor.name,
              shortName |-> data.predecessor.shortName]
        ELSE Null,
      successors |-> [i \in 1..Len(data.successors) |->
        [slug |-> data.successors[i].slug,
         name |-> data.successors[i].name,
         shortName |-> data.successors[i].shortName]],
      membersWithMandate |-> Len(FilterMandate(data.members, TRUE)),
      url |-> "https://poligraph.fr/partis/" \o data.slug]]

-----------------------------------------------------------------------------
(* tools/factchecks.ts: rendering.  A Record<string, number> of the upstream *)
(* body is the sequence of its entries [key, count] in insertion order.      *)

RECURSIVE Join(_, _)
\* strings.join(sep)
Join(strings, sep) ==
  IF strings = <<>> THEN ""
  ELSE IF Len(strings) = 1 THEN strings[1]
  ELSE strings[1] \o sep \o Join(Tail(strings), sep)

formatFactCheck(fc, showPoliticians) ==
  <<"### " \o fc.title,
    "**Verdict** : " \o formatVerdict(fc.verdictRating) \o " -- \"" \o
      fc.verdict \o "\"",
    "**Source** : [" \o fc.source \o "](" \o fc.sourceUrl \o ")",
    "**Publie le** : " \o formatDate(S(fc.publishedAt))>> \o
  (IF Truthy(fc.claimant)
   THEN <<"**Declarant** : " \o fc.claimant.s>> ELSE <<>>) \o
  (IF Truthy(fc.claimDate)
   THEN <<"**Date de la declaration** : " \o formatDate(fc.claimDate)>>
   ELSE <<>>) \o
  <<"", "> " \o fc.claimText>> \o
  (IF showPoliticians /\ "politicians" \in DOMAIN fc /\ Len(fc.politicians) > 0
   THEN <<"", "**Politicien(s) mentionne(s)** : " \o
          Join([i \in 1..Len(fc.politicians) |->
                  fc.politicians[i].fullName \o
                  (IF Truthy(fc.politicians[i].currentParty)
                   THEN " (" \o fc.politicians[i].currentParty.shortName \o ")"
                   ELSE "")], ", ")>>
   ELSE <<>>)

Render_list_factchecks(a, data) ==
  [kind |-> "ok",
   text |->
     <<"**" \o ToString(data.pagination.total) \o " fact-checks** (page " \o
       ToString(data.pagination.page) \o "/" \o
       ToString(data.pagination.totalPages) \o ")", "">> \o
     Flatten([i \in 1..Len(data.data) |->
       formatFactCheck(data.data[i], TRUE) \o <<"", "---", "">>]) \o
     (IF data.pagination.page < data.pagination.totalPages
      THEN <<PageHint(data.pagination.page)>> ELSE <<>>),
   structuredContent |->
     [total |-> data.pagination.total,
      page |-> data.pagination.page,
      totalPages |-> data.pagination.totalPages,
      items |-> [i \in 1..Len(data.data) |->
        [title |-> data.data[i].title,
         claimText |-> data.data[i].claimText,
         claimant |-> data.data[i].claimant,
         verdictRating |-> data.data[i].verdictRating,
         verdict |-> data.data[i].verdict,
         source |-> data.data[i].source,
         sourceUrl |-> data.data[i].sourceUrl,
         publishedAt |-> data.data[i].publishedAt,
         politicians |-> [k \in 1..Len(data.data[i].politicians) |->
           [slug |-> data.data[i].politicians[k].slug,
            fullName |-> data.data[i].politicians[k].fullName]]]]]]

Render_get_politician_factchecks(a, data) ==
  [kind |-> "ok",
   text |->
     <<"# Fact-checks -- " \o data.politician.fullName \o
       (IF Truthy(data.politician.party)
        THEN " (" \o data.politician.party.name \o ")" ELSE ""),
       "**" \o ToString(data.total) \o " fact-check(s)**", "">> \o
     Flatten([i \in 1..Len(data.factchecks) |->
       formatFactCheck(data.factchecks[i], FALSE) \o <<"", "---", "">>]) \o
     (IF data.pagination.page < data.pagination.totalPages
      THEN <<PageHint(data.pagination.page)>> ELSE <<>>) \o
     <<"https://poligraph.fr/politiques/" \o data.politician.slug>>,
   structuredContent |->
     [politician |->
        [slug |-> data.politician.slug,
         fullName |-> data.politician.fullName,
         party |-> PartyRef(data.politician.party)],
      total |-> data.total,
      factchecks |-> [i \in 1..Len(data.factchecks) |->
        [title |-> data.factchecks[i].title,
         claimText |-> data.factchecks[i].claimText,
         claimant |-> data.factchecks[i].claimant,
         verdictRating |-> data.factchecks[i].verdictRating,
         verdict |-> data.factchecks[i].verdict,
         source |-> data.factchecks[i].source,
         sourceUrl |-> data.factchecks[i].sourceUrl,
         publishedAt |-> data.factchecks[i].publishedAt]],
      url |-> "https://poligraph.fr/politiques/" \o data.politician.slug]]

\* Object.entries(byVerdict).sort(by count, descending) rendered "label: count"
VerdictList(byVerdict) ==
  LET sorted == SortDesc(byVerdict, "count")
  IN Join([i \in 1..Len(sorted) |->
             formatVerdict(sorted[i].key) \o ": " \o ToString(sorted[i].count)],
          ", ")

Render_get_factcheck_stats(a, data) ==
  [kind |-> "ok",
   text |->
     <<"# Statistiques Fact-checks",
       "**" \o ToString(data.global.totalFactChecks) \o " fact-checks** au total",
       "",
       "## Repartition par verdict">> \o
     (LET sorted == SortDesc(data.global.byVerdict, "count")
      IN [i \in 1..Len(sorted) |->
            "- " \o formatVerdict(sorted[i].key) \o " : **" \o
            ToString(sorted[i].count) \o "**"]) \o
     (IF Len(data.byParty) > 0
      THEN <<"", "## Par parti politique">> \o
           [i \in 1..Len(data.byParty) |->
              "- **" \o data.byParty[i].partyShortName \o "** (" \o
              data.byParty[i].partyName \o ") -- " \o
              ToString(data.byParty[i].totalMentions) \o " mentions -- " \o
              VerdictList(data.byParty[i].byVerdict)]
      ELSE <<>>) \o
     (IF Len(data.byPolitician) > 0
      THEN <<"", "## Top politiciens fact-checkes">> \o
           [i \in 1..Len(data.byPolitician) |->
              "- **" \o data.byPolitician[i].fullName \o "**" \o
              (IF Truthy(data.byPolitician[i].partyShortName)
               THEN " (" \o data.byPolitician[i].partyShortName.s \o ")"
               ELSE "") \o
              " -- " \o ToString(data.byPolitician[i].totalMentions) \o
              " mentions -- " \o VerdictList(data.byPolitician[i].byVerdict)]
      ELSE <<>>) \o
     (IF Len(data.bySource) > 0
      THEN <<"", "## Par source">> \o
           [i \in 1..Len(data.bySource) |->
              "- **" \o data.bySource[i].source \o "** : " \o
              ToString(data.bySource[i].total) \o " fact-checks"]
      ELSE <<>>),
   structuredContent |->
     [global |-> data.global,
      byParty |-> [i \in 1..Len(data.byParty) |->
        [partyShortName |-> data.byParty[i].partyShortName,
         partyName |-> data.byParty[i].partyName,
         partySlug |-> data.byParty[i].partySlug,
         totalMentions |-> data.byParty[i].totalMentions,
         byVerdict |-> data.byParty[i].byVerdict]],
      byPolitician |-> [i \in 1..Len(data.byPolitician) |->
        [fullName |-> data.byPolitician[i].fullName,
         slug |-> data.byPolitician[i].slug,
         partyShortName |-> data.byPolitician[i].partyShortName,
         totalMentions |-> data.byPolitician[i].totalMentions,
         byVerdict |-> data.byPolitician[i].byVerdict]],
      bySource |-> data.bySource]]

-----------------------------------------------------------------------------
(* tools/legislation.ts (search_advanced) and tools/departments.ts.        *)

\* the two lines of one result of the advanced search
SearchResultLines(r) ==
  <<"- **" \o r.fullName \o "**" \o
      (IF Truthy(r.currentParty) THEN " (" \o r.currentParty.shortName \o ")" ELSE "") \o
      (IF Truthy(r.currentMandate)
       THEN " -- " \o formatMandateType_legislation(r.currentMandate.type) \o
            (IF r.currentMandate.constituency # ""
             THEN ", " \o r.currentMandate.constituency ELSE "")
       ELSE "") \o
      (IF r.affairsCount > 0
       THEN " [" \o ToString(r.affairsCount) \o " affaire(s)]" ELSE ""),
    "  /politiques/" \o r.slug>>

\* SuggestionLines gone wrong: the line is written for an empty list too
SuggestionLines_noLengthTest(data) ==
  IF data.suggestions.t = "array"
  THEN <<"", "**Suggestions** : " \o Join(data.suggestions.items, ", ")>>
  ELSE <<>>

\* if (data.suggestions && data.suggestions.length > 0): the suggestions line
SuggestionLines(data) ==
  IF data.suggestions.t = "array" /\ Len(data.suggestions.items) > 0
  THEN <<"", "**Suggestions** : " \o Join(data.suggestions.items, ", ")>>
  ELSE <<>>

\* data.suggestions ?? []
StructuredSuggestions(data) ==
  IF data.suggestions.t = "array" THEN data.suggestions.items ELSE <<>>

Render_search_advanced(a, data) ==
  [kind |-> "ok",
   text |->
     <<"**" \o ToString(data.total) \o " resultats** (page " \o
       ToString(data.page) \o "/" \o ToString(data.totalPages) \o ")", "">> \o
     Flatten([i \in 1..Len(data.results) |-> SearchResultLines(data.results[i])]) \o
     SuggestionLines(data) \o
     (IF data.page < data.totalPages
      THEN <<"", PageHint(data.page)>> ELSE <<>>),
   structuredContent |->
     [total |-> data.total,
      page |-> data.page,
      totalPages |-> data.totalPages,
      results |-> [i \in 1..Len(data.results) |->
        [slug |-> data.results[i].slug,
         fullName |-> data.results[i].fullName,
         party |-> IF Truthy(data.results[i].currentParty)
                   THEN [t |-> "object",
                         shortName |-> data.results[i].currentParty.shortName]
                   ELSE Null,
         mandate |-> IF Truthy(data.results[i].currentMandate)
                     THEN [t |-> "object",
                           type |-> data.results[i].currentMandate.type,
                           constituency |->
                             data.results[i].currentMandate.constituency]
                     ELSE Null,
         affairsCount |-> data.results[i].affairsCount,
         url |-> "https://poligraph.fr/politiques/" \o data.results[i].slug]],
      suggestions |-> StructuredSuggestions(data)]]

\* CountDominant gone wrong: the seats of the dominant party are added up
CountDominant_seats(entries, d) ==
  IF ~Truthy(d.dominantParty) THEN entries
  ELSE IF \E j \in 1..Len(entries) : entries[j].key = d.dominantParty.shortName
  THEN [j \in 1..Len(entries) |->
          IF entries[j].key = d.dominantParty.shortName
          THEN [entries[j] EXCEPT !.count = @ + d.dominantParty.count] ELSE entries[j]]
  ELSE Append(entries, [key |-> d.dominantParty.shortName,
                        count |-> d.dominantParty.count])

\* partyDominance after one more department: its dominant party counted
CountDominant(entries, d) ==
  IF ~Truthy(d.dominantParty) THEN entries
  ELSE IF \E j \in 1..Len(entries) : entries[j].key = d.dominantParty.shortName
  THEN [j \in 1..Len(entries) |->
          IF entries[j].key = d.dominantParty.shortName
          THEN [entries[j] EXCEPT !.count = @ + 1] ELSE entries[j]]
  ELSE Append(entries, [key |-> d.dominantParty.shortName, count |-> 1])

RECURSIVE PartyDominance(_, _)
\* the Map partyDominance, in insertion order, after the first n departments
PartyDominance(departments, n) ==
  IF n = 0 THEN <<>>
  ELSE CountDominant(PartyDominance(departments, n - 1), departments[n])

Render_get_department_stats(a, data) ==
  LET sorted == Slice(SortDesc(data.departments, "totalElus"), 10)
      partyDominance == PartyDominance(data.departments, Len(data.departments))
      dominanceSorted == SortDesc(partyDominance, "count")
  IN [kind |-> "ok",
      text |->
        <<"# Statistiques par departement -- " \o
            (IF a.filter = S("deputes") THEN "Deputes"
             ELSE IF a.filter = S("senateurs") THEN "Senateurs"
             ELSE "Tous les elus"),
          "",
          "**" \o ToString(data.stats.totalDepartments) \o " departements** -- " \o
            ToString(data.stats.totalElus) \o " elus (" \o
            ToString(data.stats.totalDeputes) \o " deputes, " \o
            ToString(data.stats.totalSenateurs) \o " senateurs)",
          "",
          "## Top 10 departements">> \o
        [i \in 1..Len(sorted) |->
           "- **" \o sorted[i].name \o "** (" \o sorted[i].code \o ") : " \o
           ToString(sorted[i].totalElus) \o " elus (" \o
           ToString(sorted[i].deputes) \o "D, " \o
           ToString(sorted[i].senateurs) \o "S)" \o
           (IF Truthy(sorted[i].dominantParty)
            THEN " -- Dominant : " \o sorted[i].dominantParty.shortName \o " (" \o
                 ToString(sorted[i].dominantParty.count) \o ")"
            ELSE "")] \o
        (IF Len(partyDominance) > 0
         THEN <<"", "## Parti dominant par nombre de departements">> \o
              [i \in 1..Len(dominanceSorted) |->
                 "- **" \o dominanceSorted[i].key \o "** : " \o
                 ToString(dominanceSorted[i].count) \o " departements"]
         ELSE <<>>) \o
        <<"", "https://poligraph.fr/carte">>,
      structuredContent |->
        [stats |-> data.stats,
         topDepartments |-> [i \in 1..Len(sorted) |->
           [code |-> sorted[i].code,
            name |-> sorted[i].name,
            region |-> sorted[i].region,
            totalElus |-> sorted[i].totalElus,
            deputes |-> sorted[i].deputes,
            senateurs |-> sorted[i].senateurs,
            dominantParty |->
              IF Truthy(sorted[i].dominantParty)
              THEN [t |-> "object",
                    shortName |-> sorted[i].dominantParty.shortName,
                    count |-> sorted[i].dominantParty.count]
              ELSE Null]],
         partyDominance |-> partyDominance,
         url |-> "https://poligraph.fr/carte"]]

Render_get_deputies_by_department(a, data) ==
  [kind |-> "ok",
   text |->
     <<"# Deputes -- " \o a.department.s,
       "**" \o ToString(Len(data)) \o " depute(s) en exercice**", "">> \o
     Flatten([i \in 1..Len(data) |->
       <<"- **" \o data[i].fullName \o "**" \o
           (IF Truthy(data[i].party)
            THEN " (" \o data[i].party.shortName \o ")" ELSE "") \o
           " -- " \o
           (IF Truthy(data[i].constituency) THEN data[i].constituency.s ELSE ""),
         "  /politiques/" \o data[i].slug>>]) \o
     (IF Len(data) = 0
      THEN <<"_Aucun depute trouve pour ce departement. Verifiez l'orthographe (ex: 'Bouches-du-Rhone', pas 'Bouches du Rhone')._">>
      ELSE <<>>),
   structuredContent |->
     [department |-> a.department.s,
      count |-> Len(data),
      deputies |-> [i \in 1..Len(data) |->
        [slug |-> data[i].slug,
         fullName |-> data[i].fullName,
         party |-> PartyRef(data[i].party),
         constituency |-> data[i].constituency,
         url |-> "https://poligraph.fr/politiques/" \o data[i].slug]]]]

\* what the handler of tool t returns for parsed input a and upstream body data
Render(t, a, data) ==
  CASE t = "search_politicians" -> Render_search_politicians(a, data)
    [] t = "get_politician_relations" -> Render_get_politician_relations(a, data)
    [] t = "get_politician" -> Render_get_politician(a, data)
    [] t = "list_affairs" -> Render_list_affairs(a, data)
    [] t = "get_politician_affairs" -> Render_get_politician_affairs(a, data)
    [] t = "get_department_stats" -> Render_get_department_stats(a, data)
    [] t = "get_deputies_by_department" -> Render_get_deputies_by_department(a, data)
    [] t = "list_votes" -> Render_list_votes(a, data)
    [] t = "get_politician_votes" -> Render_get_politician_votes(a, data)
    [] t = "get_vote_stats" -> Render_get_vote_stats(a, data)
    [] t = "list_mandates" -> Render_list_mandates(a, data)
    [] t = "list_parties" -> Render_list_parties(a, data)
    [] t = "get_party" -> Render_get_party(a, data)
    [] t = "list_factchecks" -> Render_list_factchecks(a, data)
    [] t = "get_politician_factchecks" -> Render_get_politician_factchecks(a, data)
    [] t = "get_factcheck_stats" -> Render_get_factcheck_stats(a, data)
    [] t = "search_advanced" -> Render_search_advanced(a, data)

-----------------------------------------------------------------------------
(* fetchAPI after the await: the response check.  A response is            *)
(* [kind, status, readable, text, json, body]: kind "network" when fetch   *)
(* itself rejects; readable says whether response.text() resolves; json    *)
(* whether response.json() does, and body is then the parsed value.        *)

\* ApiError gone wrong: the status is lost
ApiError_noStatus(status, message) ==
  [kind |-> "error", name |-> "ApiError", status |-> Undef, message |-> message]

\* new ApiError(status, message), as the protocol layer reports it
ApiError(status, message) ==
  [kind |-> "error", name |-> "ApiError", status |-> N(status), message |-> message]

\* response.ok
ResponseOk(status) == status \in 200..299

\* what fetchAPI resolves to or throws, given the response
fetchAPI_response(r) ==
  IF r.kind = "network"
  THEN [kind |-> "error", name |-> "TypeError", status |-> Undef,
        message |-> "fetch failed"]
  ELSE IF ~ResponseOk(r.status)
  THEN ApiError(r.status,
                "API " \o ToString(r.status) \o ": " \o
                (IF r.readable THEN r.text ELSE "Unknown error"))
  ELSE IF ~r.json
  THEN [kind |-> "error", name |-> "SyntaxError", status |-> Undef,
        message |-> "Unexpected end of JSON input"]
  ELSE [kind |-> "data", body |-> r.body]

-----------------------------------------------------------------------------
(* Upstream bodies.  Bodies_<tool>(n, pages) is the set of bodies the model *)
(* lets upstream answer with: lists of at most n items, the pagination      *)
(* drawn from pages.                                                        *)

\* the sequences of at most n elements of set
SeqsUpTo(set, n) == UNION {[1..k -> set] : k \in 0..n}

\* page/totalPages pairs: every page of the model against every total
AllPages == {[page |-> p, totalPages |-> tp] : p \in 1..MaxPage, tp \in 0..MaxPage}

\* a first page with a following one
FirstPage == {[page |-> 1, totalPages |-> 2]}

\* the pagination object of a list response
Pagination(pg, items) ==
  [page |-> pg.page, limit |-> 20, total |-> Len(items), totalPages |-> pg.totalPages]

PartyRN ==
  [t |-> "object", id |-> "p1", name |-> "Rassemblement National",
   shortName |-> "RN", color |-> "#0D378A"]

PartyLFI ==
  [t |-> "object", id |-> "p2", name |-> "La France insoumise",
   shortName |-> "LFI", color |-> "#CC2443"]

SourceSample ==
  [id |-> "s1", url |-> "https://presse.example/article", title |-> "Article",
   publisher |-> "Le Monde", publishedAt |-> S("2024-07-07")]

\* the statuses upstream may give an affair: the nine known ones, one the
\* server does not know, and one that names an inherited property
StatusCodes == AffairStatusEnum \cup {"CLASSEMENT_SANS_SUITE", "constructor"}

\* an affair with every optional field empty
SparseAffair(status) ==
  [id |-> "a1", slug |-> "affaire-" \o status, title |-> "Affaire",
   description |-> "Description", status |-> status, category |-> "CORRUPTION",
   factsDate |-> Null, startDate |-> S(""), verdictDate |-> Null,
   sentence |-> Null, appeal |-> Null,
   politician |-> [id |-> "1", slug |-> "jean-dupont", fullName |-> "Jean Dupont",
                   currentParty |-> Null],
   partyAtTime |-> Null, sources |-> <<>>]

\* an affair with every optional field set
FullAffair(status) ==
  [id |-> "a2", slug |-> "affaire-" \o status, title |-> "Affaire des assistants",
   description |-> "Description", status |-> status, category |-> "EMPLOI_FICTIF",
   factsDate |-> S("1977-12-21"), startDate |-> S("2024-07-07"),
   verdictDate |-> S("2024-07-07"), sentence |-> S("2 ans avec sursis"),
   appeal |-> S("Appel interjete"),
   politician |-> [id |-> "2", slug |-> "marie-martin", fullName |-> "Marie Martin",
                   currentParty |-> PartyRN],
   partyAtTime |-> PartyRN, sources |-> <<SourceSample>>]

AffairSamples ==
  {SparseAffair(st) : st \in StatusCodes} \cup
  {FullAffair(st) : st \in {"MISE_EN_EXAMEN", "CONDAMNATION_DEFINITIVE"}}

Bodies_list_affairs(n, pages) ==
  {[data |-> items, pagination |-> Pagination(pg, items)] :
     items \in SeqsUpTo(AffairSamples, n), pg \in pages}

\* the politician object of the per-politician responses
PoliticianRef(party) ==
  [id |-> "1", slug |-> "jean-dupont", fullName |-> "Jean Dupont",
   firstName |-> "Jean", lastName |-> "Dupont", photoUrl |-> Null, party |-> party]

Bodies_get_politician_affairs(n, pages) ==
  {[politician |-> PoliticianRef(party), affairs |-> items, total |-> Len(items)] :
     items \in SeqsUpTo(AffairSamples, n), party \in {Null, PartyRN}}

PoliticianSamples ==
  {[id |-> "1", slug |-> "jean-dupont", fullName |-> "Jean Dupont",
    firstName |-> "Jean", lastName |-> "Dupont", civility |-> "M.",
    birthDate |-> "1977-12-21", deathDate |-> Null, birthPlace |-> "Amiens",
    photoUrl |-> Null, currentParty |-> PartyRN],
   [id |-> "2", slug |-> "marie-martin", fullName |-> "Marie Martin",
    firstName |-> "Marie", lastName |-> "Martin", civility |-> "Mme",
    birthDate |-> "pas une date", deathDate |-> S("2024-07-07"),
    birthPlace |-> "Lyon", photoUrl |-> Null, currentParty |-> Null]}

Bodies_search_politicians(n, pages) ==
  {[data |-> items, pagination |-> Pagination(pg, items)] :
     items \in SeqsUpTo(PoliticianSamples, n), pg \in pages}

MandateSamples ==
  {[id |-> "m1", type |-> "DEPUTE", title |-> "Depute de la Somme",
    institution |-> "Assemblee nationale", constituency |-> S("Somme (1)"),
    startDate |-> "2024-07-07", endDate |-> Null, isCurrent |-> TRUE],
   [id |-> "m2", type |-> "CONSEILLER_REGIONAL", title |-> "Conseiller regional",
    institution |-> "Conseil regional", constituency |-> Null,
    startDate |-> "1977-12-21", endDate |-> S("2024-07-07"), isCurrent |-> FALSE],
   [id |-> "m3", type |-> "PRESIDENT_REPUBLIQUE", title |-> "President",
    institution |-> "Elysee", constituency |-> Null,
    startDate |-> "1977-12-21", endDate |-> Null, isCurrent |-> FALSE]}

DeclarationSample ==
  [id |-> "d1", type |-> "DSP", year |-> 2022, url |-> "https://hatvp.example/d1"]

Bodies_get_politician(n, pages) ==
  {[id |-> p.id, slug |-> p.slug, fullName |-> p.fullName,
    firstName |-> p.firstName, lastName |-> p.lastName, civility |-> p.civility,
    birthDate |-> p.birthDate, deathDate |-> p.deathDate,
    birthPlace |-> p.birthPlace, photoUrl |-> p.photoUrl,
    currentParty |-> p.currentParty, mandates |-> mandates,
    declarations |-> IF counts.affairs > 0 THEN <<DeclarationSample>> ELSE <<>>,
    affairsCount |-> counts.affairs, factchecksCount |-> counts.factchecks] :
     p \in PoliticianSamples, mandates \in SeqsUpTo(MandateSamples, n),
     counts \in {[affairs |-> 0, factchecks |-> Undef],
                 [affairs |-> 0, factchecks |-> N(0)],
                 [affairs |-> 2, factchecks |-> N(3)]}}

\* a node of the relation graph
RelationNode(k, party, mandateType) ==
  [id |-> ToString(k), slug |-> "noeud-" \o ToString(k),
   fullName |-> "Noeud " \o ToString(k), photoUrl |-> Null, party |-> party,
   mandateType |-> mandateType]

ClusterSamples ==
  {[type |-> "SAME_GOVERNMENT", label |-> "Gouvernement", links |-> <<>>,
    nodes |-> <<RelationNode(1, PartyRN, "MINISTRE"),
                RelationNode(2, Null, "")>>],
   [type |-> "SAME_DEPARTMENT", label |-> "Departement", links |-> <<>>,
    nodes |-> [k \in 1..16 |-> RelationNode(k, Null, "CONSEILLER_REGIONAL")]],
   [type |-> "SAME_GOVERNMENT", label |-> "Gouvernement II", links |-> <<>>,
    nodes |-> <<RelationNode(3, Null, "MINISTRE")>>],
   [type |-> "FAMILY", label |-> "Famille", links |-> <<>>, nodes |-> <<>>]}

Bodies_get_politician_relations(n, pages) ==
  {[center |-> RelationNode(0, party, "DEPUTE"), clusters |-> clusters,
    stats |-> [totalConnections |-> Len(clusters),
               byType |-> [i \in 1..Len(clusters) |->
                             [key |-> clusters[i].type, count |-> 1]]]] :
     clusters \in SeqsUpTo(ClusterSamples, n), party \in {Null, PartyRN}}

ScrutinSamples ==
  {[id |-> "v1", externalId |-> "VTANR5L17V1", title |-> "Motion de censure",
    votingDate |-> "2024-07-07", legislature |-> 17, votesFor |-> 3,
    votesAgainst |-> 2, votesAbstain |-> 1, result |-> "ADOPTED",
    sourceUrl |-> "https://an.example/v1", totalVotes |-> 6],
   [id |-> "v2", externalId |-> "VTANR5L17V2", title |-> "Projet de loi",
    votingDate |-> "1977-12-21", legislature |-> 16, votesFor |-> 1,
    votesAgainst |-> 4, votesAbstain |-> 0, result |-> "REJECTED",
    sourceUrl |-> "https://an.example/v2", totalVotes |-> 5],
   [id |-> "v3", externalId |-> "VTANR5L17V3", title |-> "Proposition de loi",
    votingDate |-> "2024-07-07", legislature |-> 17, votesFor |-> 0,
    votesAgainst |-> 0, votesAbstain |-> 0, result |-> "WITHDRAWN",
    sourceUrl |-> "https://an.example/v3", totalVotes |-> 0]}

Bodies_list_votes(n, pages) ==
  {[data |-> items, pagination |-> Pagination(pg, items)] :
     items \in SeqsUpTo(ScrutinSamples, n), pg \in pages}

VoteSamples ==
  {[id |-> "b" \o sc.id, position |-> pos, scrutin |-> sc] :
     sc \in ScrutinSamples, pos \in {"POUR", "NON_INSCRIT"}}

Bodies_get_politician_votes(n, pages) ==
  {[politician |-> PoliticianRef(party), stats |-> stats, votes |-> votes,
    pagination |-> Pagination(pg, votes)] :
     votes \in SeqsUpTo(VoteSamples, n), pg \in pages, party \in {PartyRN},
     stats \in {[total |-> 0, pour |-> 0, contre |-> 0, abstention |-> 0,
                 nonVotant |-> 0, absent |-> 0, participationRate |-> 0],
                [total |-> 8, pour |-> 3, contre |-> 2, abstention |-> 1,
                 nonVotant |-> 1, absent |-> 1, participationRate |-> 75]}}

\* the vote statistics of one party
PartyStats(shortName, name, cohesionRate) ==
  [partyId |-> shortName, partyName |-> name, partyShortName |-> shortName,
   partyColor |-> "#000000", partySlug |-> shortName, totalVotes |-> 100,
   pour |-> 40, contre |-> 30, abstention |-> 10, nonVotant |-> 10,
   absent |-> 10, cohesionRate |-> cohesionRate, participationRate |-> 80]

PartyStatsSamples ==
  {PartyStats("RN", "Rassemblement National", 90),
   PartyStats("LFI", "La France insoumise", 95),
   PartyStats("PS", "Parti socialiste", 90)}

\* a divisive ballot
DivisiveScrutin(k, divisionScore) ==
  [id |-> ToString(k), slug |-> "scrutin-" \o ToString(k),
   title |-> "Scrutin " \o ToString(k), votingDate |-> "2024-07-07",
   chamber |-> "AN", votesFor |-> 10, votesAgainst |-> 9, votesAbstain |-> 1,
   divisionScore |-> divisionScore]

\* the lists of divisive ballots: short ones, and one of eleven in rising score
DivisiveLists(n) ==
  SeqsUpTo({DivisiveScrutin(1, 80), DivisiveScrutin(2, 95)}, n) \cup
  {[k \in 1..11 |-> DivisiveScrutin(k, 50 + k)]}

Bodies_get_vote_stats(n, pages) ==
  {[parties |-> parties, divisiveScrutins |-> divisive,
    global |-> [totalScrutins |-> 12, totalVotes |-> 300, totalVotesFor |-> 150,
                totalVotesAgainst |-> 100, totalVotesAbstain |-> 50,
                participationRate |-> 80, adoptes |-> 7, rejetes |-> 5]] :
     parties \in SeqsUpTo(PartyStatsSamples, n), divisive \in DivisiveLists(n)}

MandateItemSamples ==
  {[id |-> "m1", type |-> "DEPUTE", title |-> "Depute de la Somme",
    institution |-> S("Assemblee nationale"), role |-> Null,
    constituency |-> S("Somme (1)"), departmentCode |-> S("80"),
    startDate |-> "2024-07-07", endDate |-> Null, isCurrent |-> TRUE,
    politician |-> [id |-> "1", slug |-> "jean-dupont",
                    fullName |-> "Jean Dupont", photoUrl |-> Null]],
   [id |-> "m2", type |-> "PRESIDENT", title |-> "President",
    institution |-> Null, role |-> Null, constituency |-> Null,
    departmentCode |-> Null, startDate |-> "1977-12-21",
    endDate |-> S("2024-07-07"), isCurrent |-> FALSE,
    politician |-> [id |-> "2", slug |-> "marie-martin",
                    fullName |-> "Marie Martin", photoUrl |-> Null]],
   [id |-> "m3", type |-> "ADJOINT_MAIRE", title |-> "Adjoint",
    institution |-> S("Mairie"), role |-> Null, constituency |-> Null,
    departmentCode |-> Null, startDate |-> "1977-12-21", endDate |-> Null,
    isCurrent |-> FALSE,
    politician |-> [id |-> "2", slug |-> "marie-martin",
                    fullName |-> "Marie Martin", photoUrl |-> Null]]}

Bodies_list_mandates(n, pages) ==
  {[data |-> items, pagination |-> Pagination(pg, items)] :
     items \in SeqsUpTo(MandateItemSamples, n), pg \in pages}

PartyItemSamples ==
  {[id |-> "p1", slug |-> "rassemblement-national",
    name |-> "Rassemblement National", shortName |-> "RN", color |-> "#0D378A",
    politicalPosition |-> S("FAR_RIGHT"), logoUrl |-> Null,
    foundedDate |-> S("1977-12-21"), dissolvedDate |-> Null, website |-> Null,
    memberCount |-> 120],
   [id |-> "p3", slug |-> "ump", name |-> "Union pour un mouvement populaire",
    shortName |-> "UMP", color |-> "#0066CC", politicalPosition |-> Null,
    logoUrl |-> Null, foundedDate |-> Null, dissolvedDate |-> S("2024-07-07"),
    website |-> Null, memberCount |-> 0],
   [id |-> "p4", slug |-> "ecologistes", name |-> "Les Ecologistes",
    shortName |-> "LE", color |-> "#00C000",
    politicalPosition |-> S("ECOLOGIST"), logoUrl |-> Null,
    foundedDate |-> Null, dissolvedDate |-> Null, website |-> Null,
    memberCount |-> 30]}

Bodies_list_parties(n, pages) ==
  {[data |-> items, pagination |-> Pagination(pg, items)] :
     items \in SeqsUpTo(PartyItemSamples, n), pg \in pages}

\* a member of a party
PartyMember(k, currentMandate, affairsCount) ==
  [id |-> ToString(k), slug |-> "membre-" \o ToString(k),
   fullName |-> "Membre " \o ToString(k), photoUrl |-> Null,
   currentMandate |-> currentMandate, affairsCount |-> affairsCount]

\* the member lists: short ones, and long ones the narrative truncates
MemberLists(n) ==
  SeqsUpTo({PartyMember(1, [t |-> "object", type |-> "DEPUTE",
                            title |-> "Depute"], 0),
            PartyMember(2, [t |-> "object", type |-> "CONSEILLER_REGIONAL",
                            title |-> "Conseiller regional"], 2),
            PartyMember(3, Null, 0)}, n) \cup
  {[k \in 1..31 |-> PartyMember(k, [t |-> "object", type |-> "SENATEUR",
                                     title |-> "Senateur"], 0)],
   [k \in 1..11 |-> PartyMember(k, Null, 1)]}

Bodies_get_party(n, pages) ==
  {[id |-> p.id, slug |-> p.slug, name |-> p.name, shortName |-> p.shortName,
    color |-> p.color, politicalPosition |-> p.politicalPosition,
    logoUrl |-> p.logoUrl, foundedDate |-> p.foundedDate,
    dissolvedDate |-> p.dissolvedDate,
    website |-> IF full THEN S("https://parti.example") ELSE Null,
    description |-> IF full THEN S("Parti politique") ELSE Null,
    ideology |-> IF full THEN S("Souverainisme") ELSE Null,
    memberCount |-> p.memberCount, members |-> members, externalIds |-> <<>>,
    predecessor |-> IF full
                    THEN [t |-> "object", id |-> "p0", slug |-> "front-national",
                          name |-> "Front national", shortName |-> "FN"]
                    ELSE Null,
    successors |-> IF full THEN <<>>
                   ELSE <<[id |-> "p9", slug |-> "les-republicains",
                           name |-> "Les Republicains", shortName |-> "LR"]>>] :
     p \in PartyItemSamples, members \in MemberLists(n), full \in BOOLEAN}

\* a fact-check of the per-politician list (no politicians field)
FactCheck(k, verdictRating, claimant, claimDate) ==
  [id |-> ToString(k), claimText |-> "Declaration " \o ToString(k),
   claimant |-> claimant, title |-> "Verification " \o ToString(k),
   verdict |-> "C'est faux", verdictRating |-> verdictRating,
   source |-> "AFP Factuel", sourceUrl |-> "https://factuel.example/" \o ToString(k),
   publishedAt |-> "2024-07-07", claimDate |-> claimDate]

FactCheckSamples ==
  {FactCheck(1, "FALSE", S("Jean Dupont"), S("1977-12-21")),
   FactCheck(2, "MISLEADING", Null, Null),
   FactCheck(3, "SATIRE", Null, Null)}

\* the politicians a fact-check of the global list mentions
MentionSamples ==
  {<<>>,
   <<[id |-> "1", slug |-> "jean-dupont", fullName |-> "Jean Dupont",
      currentParty |-> PartyRN],
     [id |-> "2", slug |-> "marie-martin", fullName |-> "Marie Martin",
      currentParty |-> Null]>>}

FactCheckItemSamples ==
  {[id |-> fc.id, claimText |-> fc.claimText, claimant |-> fc.claimant,
    title |-> fc.title, verdict |-> fc.verdict,
    verdictRating |-> fc.verdictRating, source |-> fc.source,
    sourceUrl |-> fc.sourceUrl, publishedAt |-> fc.publishedAt,
    claimDate |-> fc.claimDate, politicians |-> pols] :
     fc \in {FactCheck(1, "FALSE", S("Jean Dupont"), S("1977-12-21")),
             FactCheck(2, "MISLEADING", Null, Null)},
     pols \in MentionSamples}

Bodies_list_factchecks(n, pages) ==
  {[data |-> items, pagination |-> Pagination(pg, items)] :
     items \in SeqsUpTo(FactCheckItemSamples, n), pg \in pages}

Bodies_get_politician_factchecks(n, pages) ==
  {[politician |-> PoliticianRef(party), factchecks |-> items,
    total |-> Len(items), pagination |-> Pagination(pg, items)] :
     items \in SeqsUpTo(FactCheckSamples, n), pg \in pages, party \in {Null}}

\* Record<string, number> samples, as entry lists
ByVerdictSamples ==
  {<<>>,
   <<[key |-> "TRUE", count |-> 2], [key |-> "FALSE", count |-> 5],
     [key |-> "MISLEADING", count |-> 5]>>,
   <<[key |-> "SATIRE", count |-> 1], [key |-> "FALSE", count |-> 1]>>}

Bodies_get_factcheck_stats(n, pages) ==
  {[global |-> [totalFactChecks |-> 12, byVerdict |-> bv],
    byParty |-> [i \in 1..Len(mentions) |->
      [partyId |-> "p" \o ToString(i), partyName |-> "Parti " \o ToString(i),
       partyShortName |-> "P" \o ToString(i), partyColor |-> Null,
       partySlug |-> Null, totalMentions |-> mentions[i], byVerdict |-> bv]],
    byPolitician |-> [i \in 1..Len(mentions) |->
      [politicianId |-> ToString(i), fullName |-> "Politicien " \o ToString(i),
       slug |-> "politicien-" \o ToString(i),
       partyShortName |-> IF i = 1 THEN S("RN") ELSE Null,
       totalMentions |-> mentions[i], byVerdict |-> bv]],
    bySource |-> IF bv = <<>> THEN <<>>
                 ELSE <<[source |-> "AFP Factuel", total |-> 5, byVerdict |-> bv],
                        [source |-> "Les Surligneurs", total |-> 7, byVerdict |-> bv]>>] :
     bv \in ByVerdictSamples, mentions \in SeqsUpTo({3, 7}, n)}

SearchResultSamples ==
  {[id |-> "1", slug |-> "jean-dupont", fullName |-> "Jean Dupont",
    photoUrl |-> Null, currentParty |-> PartyRN,
    currentMandate |-> [t |-> "object", type |-> "DEPUTE",
                        constituency |-> "Somme (1)"],
    affairsCount |-> 2],
   [id |-> "2", slug |-> "marie-martin", fullName |-> "Marie Martin",
    photoUrl |-> Null, currentParty |-> Null, currentMandate |-> Null,
    affairsCount |-> 0],
   [id |-> "3", slug |-> "paul-durand", fullName |-> "Paul Durand",
    photoUrl |-> Null, currentParty |-> Null,
    currentMandate |-> [t |-> "object", type |-> "CONSEILLER_REGIONAL",
                        constituency |-> ""],
    affairsCount |-> 0]}

\* the optional suggestions of the advanced search: absent, empty, or two
SuggestionSamples ==
  {Undef, Null, [t |-> "array", items |-> <<>>],
   [t |-> "array", items |-> <<"macron", "macon">>]}

Bodies_search_advanced(n, pages) ==
  {[results |-> results, total |-> Len(results), page |-> pg.page,
    totalPages |-> pg.totalPages, suggestions |-> sg] :
     results \in SeqsUpTo(SearchResultSamples, n), pg \in pages,
     sg \in SuggestionSamples}

\* the statistics of one department
Department(dep, totalElus, dominantParty) ==
  [code |-> dep, name |-> "Departement " \o dep, region |-> "Region",
   totalElus |-> totalElus, deputes |-> totalElus - 1, senateurs |-> 1,
   dominantParty |-> dominantParty, parties |-> <<>>]

\* the dominant party of a department, with its number of seats
Dominant(party, count) ==
  [t |-> "object", id |-> party.id, name |-> party.name,
   shortName |-> party.shortName, color |-> S(party.color), count |-> count]

DepartmentSamples ==
  {Department("80", 8, Dominant(PartyRN, 5)),
   Department("75", 30, Dominant(PartyLFI, 12)),
   Department("69", 8, Dominant(PartyLFI, 4)),
   Department("48", 2, Null)}

\* the department lists: short ones, and one of eleven in rising size
DepartmentLists(n) ==
  SeqsUpTo(DepartmentSamples, n) \cup
  {[k \in 1..11 |-> Department(ToString(k), k + 1, Dominant(PartyRN, 1))]}

Bodies_get_department_stats(n, pages) ==
  {[departments |-> departments,
    stats |-> [totalDepartments |-> Len(departments), totalElus |-> 48,
               totalDeputes |-> 40, totalSenateurs |-> 8],
    filter |-> "all"] :
     departments \in DepartmentLists(n)}

DeputySamples ==
  {[id |-> "1", slug |-> "jean-dupont", fullName |-> "Jean Dupont",
    photoUrl |-> Null, constituency |-> S("Somme (1)"),
    party |-> [t |-> "object", name |-> "Rassemblement National",
               shortName |-> "RN", color |-> Null]],
   [id |-> "2", slug |-> "marie-martin", fullName |-> "Marie Martin",
    photoUrl |-> Null, constituency |-> Null, party |-> Null]}

Bodies_get_deputies_by_department(n, pages) == SeqsUpTo(DeputySamples, n)

\* the bodies upstream may answer tool t with
Bodies(t, n, pages) ==
  CASE t = "search_politicians" -> Bodies_search_politicians(n, pages)
    [] t = "get_politician_relations" -> Bodies_get_politician_relations(n, pages)
    [] t = "get_politician" -> Bodies_get_politician(n, pages)
    [] t = "list_affairs" -> Bodies_list_affairs(n, pages)
    [] t = "get_politician_affairs" -> Bodies_get_politician_affairs(n, pages)
    [] t = "get_department_stats" -> Bodies_get_department_stats(n, pages)
    [] t = "get_deputies_by_department" -> Bodies_get_deputies_by_department(n, pages)
    [] t = "list_votes" -> Bodies_list_votes(n, pages)
    [] t = "get_politician_votes" -> Bodies_get_politician_votes(n, pages)
    [] t = "get_vote_stats" -> Bodies_get_vote_stats(n, pages)
    [] t = "list_mandates" -> Bodies_list_mandates(n, pages)
    [] t = "list_parties" -> Bodies_list_parties(n, pages)
    [] t = "get_party" -> Bodies_get_party(n, pages)
    [] t = "list_factchecks" -> Bodies_list_factchecks(n, pages)
    [] t = "get_politician_factchecks" -> Bodies_get_politician_factchecks(n, pages)
    [] t = "get_factcheck_stats" -> Bodies_get_factcheck_stats(n, pages)
    [] t = "search_advanced" -> Bodies_search_advanced(n, pages)

-----------------------------------------------------------------------------
(* Upstream responses and client inputs.                                   *)

\* the responses that make the invocation fail: fetch rejecting, an error
\* status with a readable or an unreadable body, a 200 that is not JSON
Failures ==
  {[kind |-> "network", status |-> 0, readable |-> FALSE, text |-> "",
    json |-> FALSE, body |-> Null]} \cup
  {[kind |-> "http", status |-> st, readable |-> TRUE, text |-> tx,
    json |-> FALSE, body |-> Null] :
     st \in {404, 500}, tx \in {"", "{\"error\":\"Not found\"}"}} \cup
  {[kind |-> "http", status |-> st, readable |-> FALSE, text |-> "",
    json |-> FALSE, body |-> Null] : st \in {404, 500}} \cup
  {[kind |-> "http", status |-> 200, readable |-> TRUE, text |-> "<html>",
    json |-> FALSE, body |-> Null]}

\* a 200 response carrying body
Success(body) ==
  [kind |-> "http", status |-> 200, readable |-> TRUE, text |-> "",
   json |-> TRUE, body |-> body]

\* what upstream may answer an invocation of tool t with
Responses(t, n, pages) == Failures \cup {Success(b) : b \in Bodies(t, n, pages)}

SlugChars == {"a", ".", "/", "?", "%", "2", "F"}

\* the slugs a client may send
Slugs == UNION {[1..k -> SlugChars] : k \in 0..MaxSlugLen}

\* candidate values of a string, a boolean, a page, a limit and an enum input
StringInputs == {Undef, S(""), S("macron")}
BooleanInputs == {Undef, B(TRUE), B(FALSE), S("true")}
PageInputs == {Undef, N(0), N(1), N(MaxPage), Frac(1)}
LimitInputs == {Undef, N(0), N(51), N(101)}
EnumInputs(values) == {Undef, S("INCONNU"), S(CHOOSE v \in values : TRUE)}

\* inputs of a tool that takes a slug next to the fields rest: every slug with
\* the other fields absent, and every other field combination with a few slugs
WithSlug(rest) ==
  {[f \in {"slug"} \cup DOMAIN r |-> IF f = "slug" THEN sl ELSE r[f]] :
     sl \in {Undef, N(1), S(<<"a">>)}, r \in rest} \cup
  {[f \in {"slug"} \cup DOMAIN r |-> IF f = "slug" THEN S(sl) ELSE Undef] :
     sl \in Slugs, r \in rest}

\* the raw inputs a client may call tool t with
Inputs(t) ==
  CASE t = "search_politicians" ->
         [query : StringInputs, party : {Undef, S("p1")},
          mandateType : EnumInputs(SearchMandateTypeEnum),
          hasAffairs : BooleanInputs, page : PageInputs, limit : LimitInputs]
    [] t = "get_politician_relations" ->
         WithSlug([types : {Undef, S(""), S("SAME_GOVERNMENT,PARTY_HISTORY")},
                   limit : LimitInputs])
    [] t \in {"get_politician", "get_politician_affairs", "get_party"} ->
         {[slug |-> sl] : sl \in {Undef, N(1)} \cup {S(x) : x \in Slugs}}
    [] t = "list_affairs" ->
         [status : EnumInputs(AffairStatusEnum),
          category : EnumInputs(AffairCategoryEnum) \cup {S("EMPLOI_FICTIF")},
          page : PageInputs, limit : LimitInputs]
    [] t = "get_department_stats" ->
         [filter : {Undef, S("all"), S("deputes"), S("senateurs"), S("maires")}]
    [] t = "get_deputies_by_department" ->
         [department : {Undef, S(""), S("Paris"), N(75)}]
    [] t = "list_votes" ->
         [search : StringInputs, result : {Undef, S("ADOPTED"), S("REJECTED"), S("adopted")},
          legislature : {Undef, N(0), N(17), Frac(16)},
          page : PageInputs, limit : LimitInputs]
    [] t \in {"get_politician_votes", "get_politician_factchecks"} ->
         WithSlug([page : PageInputs, limit : LimitInputs])
    [] t = "get_vote_stats" ->
         [chamber : {Undef, S("AN"), S("SENAT"), S("PE")}]
    [] t = "list_mandates" ->
         [type : EnumInputs(ListMandateTypeEnum), isCurrent : BooleanInputs,
          institution : StringInputs, page : PageInputs, limit : LimitInputs]
    [] t = "list_parties" ->
         [search : StringInputs, position : EnumInputs(PositionEnum),
          active : BooleanInputs, page : PageInputs, limit : LimitInputs]
    [] t = "list_factchecks" ->
         [search : StringInputs, politician : {Undef, S("marine-le-pen")},
          source : {Undef, S("AFP Factuel")}, verdict : EnumInputs(VerdictEnum),
          page : PageInputs, limit : LimitInputs]
    [] t = "get_factcheck_stats" ->
         [limit : LimitInputs \cup {N(15), N(50), Frac(15)}]
    [] t = "search_advanced" ->
         [query : StringInputs, party : {Undef, S("p1")},
          mandate : EnumInputs(AdvancedMandateEnum),
          department : {Undef, S("Paris")}, hasAffairs : BooleanInputs,
          isActive : BooleanInputs, page : PageInputs, limit : LimitInputs]

\* the valid inputs that differ in what the narrative shows: a plain slug, a
\* chamber, a filter, a department, everything else absent
PlainInputs(t) ==
  {a \in Inputs(t) :
     /\ SchemaOK(t, a)
     /\ \A f \in DOMAIN a :
          \/ a[f] = Undef
          \/ f = "slug" /\ a[f] = S(<<"a">>)
          \/ f \in {"chamber", "filter"}
          \/ f = "department" /\ a[f] = S("Paris")}

-----------------------------------------------------------------------------
(* The invocation of a tool.                                               *)

NoArgs == <<>>
NoResponse == Null
NoResult == [kind |-> "none"]
NoLabels == <<>>

\* the fields of input a that break the schema of tool t
Violations(t, a) == {f \in DOMAIN Schema(t) : ~FieldOK(Schema(t)[f], a[f])}

\* A client calls tool t with input a.  The protocol layer parses a against
\* the input schema; an invalid input is answered without running the handler,
\* a valid one starts the handler, which builds and sends its one request and
\* awaits the response.
CallTool(t, a) ==
  /\ pc = "idle"
  /\ tool' = t
  /\ args' = a
  /\ resp' = NoResponse
  /\ IF SchemaOK(t, a)
     THEN /\ requests' = <<Request(t, Parsed(t, a))>>
          /\ result' = NoResult
          /\ pc' = "fetching"
     ELSE /\ requests' = <<>>
          /\ result' = [kind |-> "invalid", fields |-> Violations(t, a)]
          /\ pc' = "rejected"
  /\ UNCHANGED <<code, label>>
  /\ UNCHANGED binding

\* UpstreamReply gone wrong: a failed request is sent once more
UpstreamReply_retry(r) ==
  /\ pc = "fetching"
  /\ resp' = r
  /\ IF fetchAPI_response(r).kind = "error"
     THEN IF Len(requests) < 2
          THEN /\ requests' = Append(requests, requests[1])
               /\ UNCHANGED <<pc, result>>
          ELSE /\ result' = fetchAPI_response(r)
               /\ pc' = "failed"
               /\ UNCHANGED requests
     ELSE /\ result' = Render(tool, Parsed(tool, args), r.body)
          /\ pc' = "done"
          /\ UNCHANGED requests
  /\ UNCHANGED <<tool, args, code, label>>
  /\ UNCHANGED binding

\* The response r arrives.  fetchAPI throws on anything but a JSON body with a
\* success status, and the handler lets the error through; otherwise the
\* handler shapes the body into its narrative and structured content.
UpstreamReply(r) ==
  /\ pc = "fetching"
  /\ resp' = r
  /\ IF fetchAPI_response(r).kind = "error"
     THEN /\ result' = fetchAPI_response(r)
          /\ pc' = "failed"
     ELSE /\ result' = Render(tool, Parsed(tool, args), r.body)
          /\ pc' = "done"
  /\ UNCHANGED <<tool, args, requests, code, label>>
  /\ UNCHANGED binding

\* The invocation is over; the server, which keeps nothing, awaits the next.
Return ==
  /\ pc \in {"rejected", "done", "failed"}
  /\ pc' = "idle"
  /\ tool' = ""
  /\ args' = NoArgs
  /\ requests' = <<>>
  /\ resp' = NoResponse
  /\ result' = NoResult
  /\ UNCHANGED <<code, label>>
  /\ UNCHANGED binding

Init ==
  /\ pc = "idle"
  /\ tool = ""
  /\ args = NoArgs
  /\ requests = <<>>
  /\ resp = NoResponse
  /\ result = NoResult
  /\ code = ""
  /\ label = NoLabels
  /\ endpoint = "stdio"
  /\ process = "running"
  /\ calls = <<>>

\* the tools a client may call now: any, once the server is idle
Callable == IF pc = "idle" THEN Tools ELSE {}

\* the responses upstream may give the request in flight: the failures and
\* the smallest bodies
Replies ==
  IF pc = "fetching" THEN Responses(tool, 0, FirstPage) ELSE {}

\* every input, valid or not, against the failures and the smallest bodies
Next ==
  \/ \E t \in Callable : \E a \in Inputs(t) : CallTool(t, a)
  \/ \E r \in Replies : UpstreamReply(r)
  \/ Return

Spec == Init /\ [][Next]_vars

\* the responses upstream may give the request in flight: the failures and
\* every body of the model
RenderReplies ==
  IF pc = "fetching"
  THEN Responses(tool,
                 IF tool \in {"list_affairs", "get_politician_affairs"}
                 THEN MaxAffairs ELSE MaxItems,
                 AllPages)
  ELSE {}

\* plain valid inputs against every body of the model
NextRender ==
  \/ \E t \in Callable : \E a \in PlainInputs(t) : CallTool(t, a)
  \/ \E r \in RenderReplies : UpstreamReply(r)
  \/ Return

SpecRender == Init /\ [][NextRender]_vars

\* the tools whose filters are followed: a search, a category, a verdict
FilterTools == {"search_politicians", "list_affairs", "list_factchecks"}

\* their inputs: the filter and the limit set or not, everything else absent
FilterInputs(t) ==
  CASE t = "search_politicians" ->
         [query : {Undef, S("Macron")}, party : {Undef}, mandateType : {Undef},
          hasAffairs : {Undef}, page : {Undef}, limit : {Undef, N(5), N(51)}]
    [] t = "list_affairs" ->
         [status : {Undef}, category : {Undef, S("CORRUPTION"), S("FRAUDE_FISCALE")},
          page : {Undef}, limit : {Undef}]
    [] t = "list_factchecks" ->
         [search : {Undef}, politician : {Undef}, source : {Undef},
          verdict : {Undef, S("FALSE"), S("MISLEADING")},
          page : {Undef}, limit : {Undef}]
    [] OTHER -> {}

FilterCallable == IF pc = "idle" THEN FilterTools ELSE {}

\* the responses upstream may give the request in flight: a failure, and every
\* body of the model, whatever the filter asked for, its pagination naming
\* the limit of the request
FilterReplies ==
  IF pc = "fetching"
  THEN {r \in Failures : r.kind = "network"} \cup
       {Success([b EXCEPT !.pagination.limit = Parsed(tool, args).limit.n]) :
          b \in Bodies(tool, IF tool = "list_affairs" THEN MaxAffairs ELSE MaxItems,
                       FirstPage)}
  ELSE {}

\* filtered calls against every body of the model
NextFilter ==
  \/ \E t \in FilterCallable : \E a \in FilterInputs(t) : CallTool(t, a)
  \/ \E r \in FilterReplies : UpstreamReply(r)
  \/ Return

SpecFilter == Init /\ [][NextFilter]_vars

-----------------------------------------------------------------------------
(* The label functions on their own: a code is drawn, every function is    *)
(* applied to it.                                                          *)

\* the keys of the label tables
TableCodes ==
  AffairStatusEnum \cup AffairCategoryEnum \cup ListMandateTypeEnum \cup
  SearchMandateTypeEnum \cup PositionEnum \cup VerdictEnum \cup
  {"VIOL", "AGRESSION_SEXUELLE", "ABUS_BIENS_SOCIAUX", "DETOURNEMENT_FONDS",
   "EMPLOI_FICTIF", "FINANCEMENT_ILLEGAL", "HARCELEMENT_MORAL", "MENACE",
   "OUTRAGE", "RECEL"} \cup
  {"POUR", "CONTRE", "ABSTENTION", "NON_VOTANT", "ABSENT"} \cup
  {"SAME_GOVERNMENT", "SHARED_COMPANY", "SAME_DEPARTMENT", "PARTY_HISTORY"}

\* the codes upstream may send: those of the tables, and codes of no table
LabelCodes ==
  TableCodes \cup {"INCONNU", "depute", "constructor", "toString", "__proto__"}

InitFormat ==
  /\ pc = "idle"
  /\ tool = ""
  /\ args = NoArgs
  /\ requests = <<>>
  /\ resp = NoResponse
  /\ result = NoResult
  /\ code \in LabelCodes
  /\ label = NoLabels
  /\ endpoint = "stdio"
  /\ process = "running"
  /\ calls = <<>>

\* every label function applied to code
FormatCode ==
  /\ label = NoLabels
  /\ label' =
       [formatStatus |-> formatStatus(code),
        formatCategory |-> formatCategory(code),
        formatMandateType_politicians |-> formatMandateType_politicians(code),
        formatMandateType_mandates |-> formatMandateType_mandates(code),
        formatMandateType_parties |-> formatMandateType_parties(code),
        formatMandateType_legislation |-> formatMandateType_legislation(code),
        formatRelationType |-> formatRelationType(code),
        formatVerdict |-> formatVerdict(code),
        formatPosition_votes |-> formatPosition_votes(code),
        formatPosition_parties |-> formatPosition_parties(S(code))]
  /\ UNCHANGED <<pc, tool, args, requests, resp, result, code>>
  /\ UNCHANGED binding

\* the next code is drawn
NextCode ==
  /\ label # NoLabels
  /\ code' \in LabelCodes
  /\ label' = NoLabels
  /\ UNCHANGED <<pc, tool, args, requests, resp, result>>
  /\ UNCHANGED binding

NextFormat == FormatCode \/ NextCode

SpecFormat == InitFormat /\ [][NextFormat]_vars

\* the values formatDate is called with: absent ones, strings that parse as a
\* date and strings that do not
UnparseableDates == {"pas-une-date", "inconnue", "?"}
DateInputs ==
  {Null, Undef, S("")} \cup {S(d) : d \in ParseableDates \cup UnparseableDates}

InitDate ==
  /\ pc = "idle"
  /\ tool = ""
  /\ args = NoArgs
  /\ requests = <<>>
  /\ resp = NoResponse
  /\ result = NoResult
  /\ code \in DateInputs
  /\ label = NoLabels
  /\ endpoint = "stdio"
  /\ process = "running"
  /\ calls = <<>>

\* formatDate applied to the value
FormatDate ==
  /\ label = NoLabels
  /\ label' = [formatDate |-> formatDate(code)]
  /\ UNCHANGED <<pc, tool, args, requests, resp, result, code>>
  /\ UNCHANGED binding

\* the next value is drawn
NextDate ==
  /\ label # NoLabels
  /\ code' \in DateInputs
  /\ label' = NoLabels
  /\ UNCHANGED <<pc, tool, args, requests, resp, result>>
  /\ UNCHANGED binding

NextFormatDate == FormatDate \/ NextDate

SpecDate == InitDate /\ [][NextFormatDate]_vars

-----------------------------------------------------------------------------
(* The HTTP binding: every request to /mcp gets a server and a transport   *)
(* of its own, and the requests are served side by side.                   *)

\* the variables of the single invocation and of the pure functions
single == <<pc, tool, args, requests, resp, result, code, label>>

Ids == 1..MaxCalls

\* a slot that serves no request
FreeSlot ==
  [pc |-> "free", tool |-> "", args |-> NoArgs, requests |-> <<>>,
   resp |-> NoResponse, connection |-> "none", transport |-> "none",
   server |-> "none", upstream |-> "none", emitted |-> NoResult]

\* the result of a tool call whose handler threw: the protocol layer catches
\* the error and answers with its message
ToolError(message) ==
  [kind |-> "result", isError |-> TRUE, text |-> <<message>>,
   structuredContent |-> Undef]

\* What the handler of tool t, called with input a, makes of response r:
\* fetchAPI throws on a failure, the handler throws on a body that is null,
\* and otherwise returns its narrative and structured content.
Handle(t, a, r) ==
  IF fetchAPI_response(r).kind = "error"
  THEN ToolError(fetchAPI_response(r).message)
  ELSE IF r.body = Null
  THEN ToolError("Cannot read properties of null")
  ELSE [kind |-> "result", isError |-> FALSE,
        text |-> Render(t, Parsed(t, a), r.body).text,
        structuredContent |-> Render(t, Parsed(t, a), r.body).structuredContent]

\* the generic answer of the serverless handler's catch block
InternalError ==
  [kind |-> "error", status |-> 500, code |-> -32603,
   message |-> "Internal error", id |-> Null]

\* the answer of the framework's own error handler: the error itself
FrameworkError ==
  [kind |-> "html", status |-> 500,
   text |-> "Error: transport failure, with its stack"]

\* A request arrives in slot i: a server and a transport are created and
\* connected, the call is validated and the handler sends its upstream request.
Receive(i, t, a) ==
  /\ process = "running"
  /\ calls[i].pc = "free"
  /\ calls' = [calls EXCEPT ![i] =
       IF SchemaOK(t, a)
       THEN [pc |-> "fetching", tool |-> t, args |-> a,
             requests |-> <<Request(t, Parsed(t, a))>>, resp |-> NoResponse,
             connection |-> "open", transport |-> "open", server |-> "open",
             upstream |-> "pending", emitted |-> NoResult]
       ELSE [pc |-> "answered", tool |-> t, args |-> a, requests |-> <<>>,
             resp |-> NoResponse, connection |-> "closed",
             transport |-> "closed", server |-> "closed", upstream |-> "none",
             emitted |-> [kind |-> "invalid", fields |-> Violations(t, a)]]]
  /\ UNCHANGED <<endpoint, process>>
  /\ UNCHANGED single

\* A request arrives in slot i and server.connect or transport.handleRequest
\* rejects.  The serverless handler catches and, unless the headers are sent,
\* answers with the generic error.  The Express route has no catch: the
\* rejection is either left unhandled, which ends the process, or taken by the
\* framework's error handler, depending on the framework's version.
BindingFails(i, headersSent, unhandled) ==
  /\ process = "running"
  /\ calls[i].pc = "free"
  /\ IF endpoint = "express" /\ unhandled
     THEN /\ process' = "crashed"
          /\ UNCHANGED calls
     ELSE /\ calls' = [calls EXCEPT ![i] =
               [FreeSlot EXCEPT
                  !.pc = "errored",
                  !.connection = IF headersSent THEN "open" ELSE "closed",
                  !.transport = IF headersSent THEN "open" ELSE "closed",
                  !.server = IF headersSent THEN "open" ELSE "closed",
                  !.emitted = IF headersSent THEN NoResult
                              ELSE IF endpoint = "vercel" THEN InternalError
                              ELSE FrameworkError]]
          /\ UNCHANGED process
  /\ UNCHANGED endpoint
  /\ UNCHANGED single

\* The client of slot i goes away before its response: the close handler
\* closes the transport and the server.  fetch was given no signal, so the
\* upstream request stays in flight.
ClientCloses(i) ==
  /\ process = "running"
  /\ calls[i].pc \in {"fetching", "errored"}
  /\ calls[i].connection = "open"
  /\ calls' = [calls EXCEPT ![i] =
       [calls[i] EXCEPT !.connection = "closed", !.transport = "closed",
                        !.server = "closed"]]
  /\ UNCHANGED <<endpoint, process>>
  /\ UNCHANGED single

\* The upstream response r of slot i arrives and the handler ends with
\* outcome, the process going on as proc.  The outcome is written to the
\* client if the connection is still open, and dropped if it is not.
Settle(i, r, outcome, proc) ==
  /\ process = "running"
  /\ calls[i].pc = "fetching"
  /\ calls' = [calls EXCEPT ![i] =
       [calls[i] EXCEPT
          !.resp = r,
          !.upstream = "done",
          !.pc = IF calls[i].connection = "open" THEN "answered" ELSE "dropped",
          !.emitted = IF calls[i].connection = "open" THEN outcome ELSE NoResult,
          !.connection = "closed", !.transport = "closed", !.server = "closed"]]
  /\ process' = proc
  /\ UNCHANGED endpoint
  /\ UNCHANGED single

\* the narratives written so far by the requests still in their slots
LinesSoFar(i) ==
  Flatten([j \in Ids |->
             IF j # i /\ calls[j].emitted.kind = "result"
             THEN calls[j].emitted.text ELSE <<>>])

\* Respond gone wrong: the error of a failed call is not caught
Respond_uncaught(i, r) ==
  Settle(i, r, Handle(calls[i].tool, calls[i].args, r),
         IF Handle(calls[i].tool, calls[i].args, r).isError
         THEN "crashed" ELSE "running")

\* Respond gone wrong: the lines are gathered in an array the calls share
Respond_sharedLines(i, r) ==
  Settle(i, r,
         [Handle(calls[i].tool, calls[i].args, r) EXCEPT
            !.text = LinesSoFar(i) \o @],
         "running")

\* Respond gone wrong: the narrative depends on the answers given before
Respond_counted(i, r) ==
  Settle(i, r,
         [Handle(calls[i].tool, calls[i].args, r) EXCEPT
            !.text = IF LinesSoFar(i) = <<>> THEN @ ELSE <<"(suite)">> \o @],
         "running")

\* The upstream response r of slot i arrives: the handler of the call ends,
\* with its result or with an error the protocol layer catches.
Respond(i, r) ==
  Settle(i, r, Handle(calls[i].tool, calls[i].args, r), "running")

\* the exchange of slot i is over
Release(i) ==
  /\ process = "running"
  /\ calls[i].pc \in {"answered", "dropped"}
     \/ (calls[i].pc = "errored" /\ calls[i].connection = "closed")
  /\ calls' = [calls EXCEPT ![i] = FreeSlot]
  /\ UNCHANGED <<endpoint, process>>
  /\ UNCHANGED single

\* the calls the clients make: two statistics and an invalid page
ServedCalls ==
  {[tool |-> "get_vote_stats", args |-> [chamber |-> Undef]],
   [tool |-> "get_department_stats", args |-> [filter |-> Undef]],
   [tool |-> "list_affairs",
    args |-> [status |-> Undef, category |-> Undef, page |-> N(0), limit |-> Undef]]}

\* the bodies upstream answers them with: parties and departments out of order
ServedBodies(t) ==
  CASE t = "get_vote_stats" ->
         {b \in Bodies_get_vote_stats(2, FirstPage) :
            /\ Len(b.parties) = 2
            /\ b.parties[1].cohesionRate < b.parties[2].cohesionRate
            /\ b.divisiveScrutins = <<>>}
    [] t = "get_department_stats" ->
         {b \in Bodies_get_department_stats(2, FirstPage) :
            /\ Len(b.departments) = 2
            /\ b.departments[1].code = "80"
            /\ b.departments[2].code = "75"}
    [] OTHER -> {}

\* the responses of upstream in this setting: no answer, a 500, null, a body
ServedResponses(t) ==
  IF t = "" THEN {}
  ELSE {r \in Failures : r.kind = "network" \/ (r.status = 500 /\ ~r.readable)}
       \cup {Success(Null)} \cup {Success(b) : b \in ServedBodies(t)}

InitServer ==
  /\ pc = "idle"
  /\ tool = ""
  /\ args = NoArgs
  /\ requests = <<>>
  /\ resp = NoResponse
  /\ result = NoResult
  /\ code = ""
  /\ label = NoLabels
  /\ endpoint \in {"express", "vercel"}
  /\ process = "running"
  /\ calls = [i \in Ids |-> FreeSlot]

NextServer ==
  \/ \E i \in Ids : \E c \in ServedCalls : Receive(i, c.tool, c.args)
  \/ \E i \in Ids : \E headersSent, unhandled \in BOOLEAN :
       BindingFails(i, headersSent, unhandled)
  \/ \E i \in Ids : ClientCloses(i)
  \/ \E i \in Ids : \E r \in ServedResponses(calls[i].tool) : Respond(i, r)
  \/ \E i \in Ids : Release(i)

SpecServer == InitServer /\ [][NextServer]_vars

-----------------------------------------------------------------------------
(* Properties.                                                             *)

\* the statuses of an affair that is not yet judged
UnresolvedStatuses ==
  {"ENQUETE_PRELIMINAIRE", "MISE_EN_EXAMEN", "PROCES_EN_COURS", "APPEL_EN_COURS"}

\* the invocation has returned a narrative
Rendered(t) == pc = "done" /\ tool = t

\* C1: in the narrative of get_politician_affairs the presumption notice
\* appears exactly once when some affair of the upstream list has an
\* unresolved status, and not at all when none has.
C1_NoticeOnce ==
  Rendered("get_politician_affairs") =>
    Count(PRESUMPTION_NOTICE, result.text) =
      IF \E i \in 1..Len(resp.body.affairs) :
           resp.body.affairs[i].status \in UnresolvedStatuses
      THEN 1 ELSE 0

\* the positions of the separator lines of a list narrative
Separators(text) == {i \in 1..Len(text) : text[i] = "---"}

\* the position of the k-th separator line
Separator(text, k) ==
  IF k = 0 THEN 0
  ELSE CHOOSE i \in Separators(text) :
         Cardinality({j \in Separators(text) : j <= i}) = k

\* the k-th block of a list narrative: the lines before the k-th separator,
\* back to the separator before it (or to the top of the narrative)
Block(text, k) ==
  SubSeq(text, Separator(text, k - 1) + 1, Separator(text, k) - 1)

\* C2: in the narrative of list_affairs there is one block per affair; the
\* block of an affair holds the presumption notice exactly once if the status
\* of the affair is unresolved and never otherwise, so the narrative holds as
\* many notices as there are affairs with an unresolved status.
C2_NoticePerBlock ==
  Rendered("list_affairs") =>
    LET items == resp.body.data
    IN /\ Cardinality(Separators(result.text)) = Len(items)
       /\ \A k \in 1..Len(items) :
            Count(PRESUMPTION_NOTICE, Block(result.text, k)) =
              IF items[k].status \in UnresolvedStatuses THEN 1 ELSE 0
       /\ Count(PRESUMPTION_NOTICE, result.text) =
            Cardinality({k \in 1..Len(items) :
                           items[k].status \in UnresolvedStatuses})

\* a list of two affairs, one under investigation and one finally judged, shown
C2_Witness ==
  /\ Rendered("list_affairs")
  /\ Len(resp.body.data) = 2
  /\ resp.body.data[1].status = "MISE_EN_EXAMEN"
  /\ resp.body.data[2].status = "CONDAMNATION_DEFINITIVE"
  /\ Count(PRESUMPTION_NOTICE, result.text) = 1

\* the pagination upstream answered a paginated tool with
UpstreamPagination ==
  IF tool = "search_advanced" THEN resp.body ELSE resp.body.pagination

\* the lines that are a next-page hint
HintLines(text) ==
  {i \in 1..Len(text) :
     \E n \in 0..(MaxPage + 2) :
       text[i] = "_Page suivante : page=" \o ToString(n) \o "_"}

\* C3: the narrative of a paginated tool holds a next-page hint if and only if
\* the upstream page is strictly less than the upstream totalPages, and the
\* hint names page + 1.
C3_HintIffMorePages ==
  (pc = "done" /\ tool \in PaginatedTools) =>
    IF UpstreamPagination.page < UpstreamPagination.totalPages
    THEN /\ Cardinality(HintLines(result.text)) = 1
         /\ \A i \in HintLines(result.text) :
              result.text[i] = "_Page suivante : page=" \o
                               ToString(UpstreamPagination.page + 1) \o "_"
    ELSE HintLines(result.text) = {}

\* the first page of several, shown with its hint
C3_Witness ==
  /\ pc = "done"
  /\ tool = "list_mandates"
  /\ resp.body.pagination.page = 1
  /\ resp.body.pagination.totalPages = 2
  /\ Len(resp.body.data) = 1
  /\ HintLines(result.text) # {}

\* the handler of the invocation has sent its request
Sent == pc \in {"fetching", "done", "failed"}

\* the part of the request path that stands for the slug: what follows
\* /api/politiques/ or /api/partis/, up to the sub-resource if there is one
SlugSegment(path) ==
  SubSeq(path, 6,
         IF tool \in {"get_politician", "get_party"} THEN Len(path)
         ELSE Len(path) - 2)

RECURSIVE PercentDecode(_)
\* cs with every %XX replaced, once, by the character it stands for
PercentDecode(cs) ==
  IF cs = <<>> THEN <<>>
  ELSE IF Head(cs) = "%" /\ Len(cs) >= 3
  THEN <<CASE SubSeq(cs, 2, 3) = <<"2", "F">> -> "/"
           [] SubSeq(cs, 2, 3) = <<"3", "F">> -> "?"
           [] SubSeq(cs, 2, 3) = <<"2", "3">> -> "#"
           [] SubSeq(cs, 2, 3) = <<"2", "5">> -> "%"
           [] SubSeq(cs, 2, 3) = <<"2", "0">> -> " "
           [] SubSeq(cs, 2, 3) = <<"5", "C">> -> "\\"
           [] OTHER -> "?">> \o
       PercentDecode(SubSeq(cs, 4, Len(cs)))
  ELSE <<Head(cs)>> \o PercentDecode(Tail(cs))

\* the characters that are reserved in a path segment
ReservedChars == {"/", "?", "#", " ", "\\"}

\* C4: a tool that takes a slug percent-encodes it exactly once before the
\* request path is built: the slug part of the path holds no raw reserved
\* character and decodes, in one pass, to the slug; the URL requested has no
\* query and no fragment cut out of the slug and no raw reserved character.
C4_SlugEncodedOnce ==
  (Sent /\ tool \in SlugTools) =>
    LET req == requests[1]
        segment == SlugSegment(req.path)
    IN /\ \A i \in 1..Len(segment) : segment[i] \notin ReservedChars
       /\ Count("%", segment) = Len(segment) - Len(args.slug.s)
                                  - Count("%", segment)
       /\ PercentDecode(segment) = args.slug.s
       /\ req.url.search = <<>>
       /\ req.url.hash = <<>>
       /\ \A i \in 1..Len(req.url.pathname) :
            req.url.pathname[i] \notin {"?", "#", " ", "\\"}

\* get_party asked for a slug that is itself a percent-encoded slash
C4_Witness ==
  /\ pc = "fetching"
  /\ tool = "get_party"
  /\ args.slug.s = <<"%", "2", "F">>
  /\ requests[1].url.pathname =
       <<"/", "api", "/", "partis", "/", "%", "2", "5", "2", "F">>

\* C5: when the upstream response has a non-success status the invocation ends
\* in a failure that carries the numeric status and the body text, or
\* "Unknown error" if the body cannot be read; it never ends in a success.
C5_StatusSurfaces ==
  (pc \in {"done", "failed"} /\ resp.kind = "http" /\ resp.status \notin 200..299) =>
    /\ pc = "failed"
    /\ result.kind = "error"
    /\ result.status = N(resp.status)
    /\ result.message =
         "API " \o ToString(resp.status) \o ": " \o
         (IF resp.readable THEN resp.text ELSE "Unknown error")

\* a 500 whose body cannot be read has failed the invocation
C5_Witness ==
  /\ pc = "failed"
  /\ resp.kind = "http"
  /\ resp.status = 500
  /\ ~resp.readable
  /\ result.message = "API 500: Unknown error"

\* input a breaks the schema of tool t: a required field is missing, or a
\* field has the wrong type, is no integer, is out of its range or of its enum
BreaksSchema(t, a) ==
  \E f \in DOMAIN Schema(t) :
    LET z == Schema(t)[f]
        v == a[f]
    IN IF v.t = "undefined" THEN ~z.optional /\ z.default.t = "undefined"
       ELSE \/ z.type \in {"string", "enum"} /\ v.t # "string"
            \/ z.type = "enum" /\ v.t = "string" /\ v.s \notin z.values
            \/ z.type = "boolean" /\ v.t # "boolean"
            \/ z.type = "int" /\ v.t # "number"
            \/ z.type = "int" /\ v.t = "number" /\
                 (~v.int \/ (z.hasMin /\ v.n < z.min) \/ (z.hasMax /\ v.n > z.max))

\* C6: an invocation whose input breaks the schema of the tool is rejected,
\* and a rejected invocation has issued no upstream request.
C6_RejectedBeforeRequest ==
  /\ (pc # "idle" /\ BreaksSchema(tool, args)) => pc = "rejected"
  /\ pc = "rejected" => (requests = <<>> /\ result.kind = "invalid")

\* search_politicians called with page 0 is rejected
C6_Witness ==
  /\ pc = "rejected"
  /\ tool = "search_politicians"
  /\ args.page = N(0)
  /\ result.fields = {"page"}
  /\ requests = <<>>

\* C7: an invocation makes exactly one upstream request: none is added when
\* the request fails (no retry) nor when the body tells of further pages.
C7_OneRequest ==
  /\ Sent => Len(requests) = 1
  /\ ~Sent => requests = <<>>

\* a failed invocation, its one request behind it
C7_Witness ==
  /\ pc = "failed"
  /\ resp.kind = "http"
  /\ resp.status = 404
  /\ Len(requests) = 1

\* the codes that some formatMandateType table has a label for
MandateTypeCodes ==
  ListMandateTypeEnum \cup SearchMandateTypeEnum \cup
  {"PRESIDENT", "PRESIDENT_REGION", "PRESIDENT_DEPARTEMENT"}

\* C8: a mandate-type code gets the same label from every formatMandateType:
\* that of get_politician and get_politician_relations, that of list_mandates,
\* that of get_party and that of search_advanced.
C8_SameLabelEverywhere ==
  (label # NoLabels /\ code \in MandateTypeCodes) =>
    /\ label.formatMandateType_mandates = label.formatMandateType_politicians
    /\ label.formatMandateType_parties = label.formatMandateType_politicians
    /\ label.formatMandateType_legislation = label.formatMandateType_politicians

\* C9: a code that is a key of no table comes back unchanged from every
\* label function.
C9_UnknownCodeUnchanged ==
  (label # NoLabels /\ code \notin TableCodes) =>
    \A f \in DOMAIN label : label[f] = code

\* the name of the query parameter that field f of tool t is sent under
ParamKey(t, f) ==
  CASE t = "search_politicians" /\ f = "query" -> "search"
    [] t = "search_politicians" /\ f = "party" -> "partyId"
    [] t = "search_advanced" /\ f = "query" -> "q"
    [] OTHER -> f

\* C10: the query of the request holds a parameter if and only if the value
\* the handler passes for it is neither undefined nor the empty string, and
\* it holds the value as text: false is sent as "false" and 0 as "0".
C10_ParamSentIffSet ==
  Sent =>
    LET query == requests[1].query
        a == Parsed(tool, args)
        fields == DOMAIN a \ {"slug"}
    IN /\ \A f \in fields :
            LET entries == {i \in 1..Len(query) : query[i][1] = ParamKey(tool, f)}
            IN IF a[f] = Undef \/ a[f] = S("")
               THEN entries = {}
               ELSE /\ Cardinality(entries) = 1
                    /\ \A i \in entries :
                         query[i][2] =
                           CASE a[f] = B(FALSE) -> "false"
                             [] a[f] = B(TRUE) -> "true"
                             [] a[f] = N(0) -> "0"
                             [] a[f].t = "number" -> ToString(a[f].n)
                             [] OTHER -> a[f].s
       /\ \A i \in 1..Len(query) : \E f \in fields : query[i][1] = ParamKey(tool, f)

\* search_advanced asked for politicians without affairs: false is sent
C10_Witness ==
  /\ pc = "fetching"
  /\ tool = "search_advanced"
  /\ args.hasAffairs = B(FALSE)
  /\ args.isActive = Undef
  /\ args.query = S("")
  /\ \E i \in 1..Len(requests[1].query) : requests[1].query[i] = <<"hasAffairs", "false">>
  /\ \A i \in 1..Len(requests[1].query) : requests[1].query[i][1] \notin {"isActive", "q"}

\* what the header line of a list narrative calls the items
ListNouns == {"affaires", "scrutins", "resultats", "mandats", "partis", "fact-checks"}

\* the narrative has a header line that shows total, page and totalPages of pg
HeaderShows(text, pg) ==
  \E k \in 1..Len(text) : \E noun \in ListNouns :
    text[k] = "**" \o ToString(pg.total) \o " " \o noun \o "** (page " \o
              ToString(pg.page) \o "/" \o ToString(pg.totalPages) \o ")"

\* the structured content has the fields page, total and totalPages of pg
StructuredShows(content, pg) ==
  /\ {"page", "total", "totalPages"} \subseteq DOMAIN content
  /\ content.page = pg.page
  /\ content.total = pg.total
  /\ content.totalPages = pg.totalPages

\* C11: the output of every list-returning tool carries page, total and
\* totalPages as upstream sent them, in its structured content or in the
\* header of its narrative.
C11_PaginationSurfaced ==
  (pc = "done" /\ tool \in PaginatedTools) =>
    \/ StructuredShows(result.structuredContent, UpstreamPagination)
    \/ HeaderShows(result.text, UpstreamPagination)

\* the French names of the months
FrenchMonths ==
  <<"janvier", "fevrier", "mars", "avril", "mai", "juin", "juillet", "aout",
    "septembre", "octobre", "novembre", "decembre">>

\* C12: formatDate gives the placeholder for null, undefined and the empty
\* string, gives back unchanged a string that is no date, and gives the French
\* long form (day, month name, year) of a string that is one.
C12_FormatDate ==
  label # NoLabels =>
    IF code \in {Null, Undef, S("")} THEN label.formatDate = "--"
    ELSE IF code.s \in UnparseableDates THEN label.formatDate = code.s
    ELSE \E date \in Calendar :
           /\ code.s \in {IsoDate(date), IsoDateTime(date)}
           /\ label.formatDate =
                ToString(date.day) \o " " \o FrenchMonths[date.month] \o " " \o
                ToString(date.year)

\* a string that is no date has come back as it was
C12_Witness ==
  /\ code = S("pas-une-date")
  /\ label # NoLabels
  /\ label.formatDate = "pas-une-date"

\* C13: every registered tool carries the hints readOnlyHint = true,
\* destructiveHint = false and openWorldHint = false: whichever tool a client
\* calls, list_mandates too, is registered with them.
C13_ReadOnlyHints ==
  pc # "idle" =>
    Annotations(tool) =
      [readOnlyHint |-> TRUE, destructiveHint |-> FALSE, openWorldHint |-> FALSE]

\* slot i holds a tool call that ended in an error
Failed(c) == c.pc = "answered" /\ c.emitted.kind = "result" /\ c.emitted.isError

Answered(c) == c.pc = "answered" /\ c.emitted.kind = "result"

C16_ClosedReleasesAll ==
  \A i \in Ids :
    (calls[i].tool # "" /\ calls[i].connection = "closed"
     /\ calls[i].pc \in {"fetching", "dropped"}) =>
      /\ calls[i].transport = "closed"
      /\ calls[i].server = "closed"
      /\ calls[i].upstream # "pending"
      /\ calls[i].emitted = NoResult

\* C18: a failure of the binding itself is answered with the generic error
\* (HTTP 500, JSON-RPC -32603, "Internal error") and nothing else, on either
\* endpoint; only a response whose headers are out already gets no answer.
C18_GenericInternalError ==
  /\ process = "running"
  /\ \A i \in Ids :
       calls[i].pc = "errored" => calls[i].emitted \in {InternalError, NoResult}

\* the values the query of request rq holds for key
QueryValues(rq, key) ==
  {rq.query[i][2] : i \in {k \in 1..Len(rq.query) : rq.query[k][1] = key}}

\* the request of search_politicians carries the query as search and the limit
ForwardsSearchAndLimit ==
  /\ requests[1].path = <<"/", "api", "/", "politiques">>
  /\ QueryValues(requests[1], "search") =
       IF args.query = Undef THEN {} ELSE {args.query.s}
  /\ QueryValues(requests[1], "limit") = {ToString(Parsed(tool, args).limit.n)}

FilterField == IF tool = "list_affairs" THEN "category" ELSE "verdict"
ItemField == IF tool = "list_affairs" THEN "category" ELSE "verdictRating"

\* C20 as stated: list_affairs with category = c returns only items whose
\* category is c, and list_factchecks with verdict = v only items whose
\* verdictRating is v, for every upstream response.
C20_OnlyMatchingItems ==
  (/\ pc = "done"
   /\ tool \in {"list_affairs", "list_factchecks"}
   /\ args[FilterField] # Undef) =>
    \A i \in 1..Len(result.structuredContent.items) :
      result.structuredContent.items[i][ItemField] = args[FilterField].s

\* C20: list_affairs with category = c sends category = c to /api/affaires
\* (list_factchecks with verdict = v sends verdict = v to /api/factchecks) and
\* returns the items of the upstream response, one for one, each with the
\* category (the verdictRating) upstream gave it.
C20_FilterForwarded ==
  (/\ tool \in {"list_affairs", "list_factchecks"}
   /\ pc \in {"fetching", "done"}
   /\ args[FilterField] # Undef) =>
    /\ QueryValues(requests[1], FilterField) = {args[FilterField].s}
    /\ pc = "done" =>
         /\ Len(result.structuredContent.items) = Len(resp.body.data)
         /\ \A i \in 1..Len(resp.body.data) :
              result.structuredContent.items[i][ItemField] =
                resp.body.data[i][ItemField]

\* CORRUPTION was asked for and upstream answered with another category too
C20_Witness ==
  /\ pc = "done"
  /\ tool = "list_affairs"
  /\ args.category = S("CORRUPTION")
  /\ QueryValues(requests[1], "category") = {"CORRUPTION"}
  /\ \E i, j \in 1..Len(result.structuredContent.items) :
       /\ result.structuredContent.items[i].category = "CORRUPTION"
       /\ result.structuredContent.items[j].category # "CORRUPTION"

\* the narrative lines of text that are one of lines, in the order of text
LinesAmong(text, lines) == SelectSeq(text, LAMBDA l : l \in lines)

\* the narrative line that gives the score of divisive ballot s
ScoreLine(s) ==
  "  Pour: " \o ToString(s.votesFor) \o ", Contre: " \o ToString(s.votesAgainst) \o
  ", Abstention: " \o ToString(s.votesAbstain) \o " -- Score de division : " \o
  ToString(s.divisionScore) \o "%"

\* the narrative line of party p in the cohesion section
CohesionLine(p) ==
  "- **" \o p.partyShortName \o "** (" \o p.partyName \o ") : " \o
  ToString(p.cohesionRate) \o "% de cohesion (" \o ToString(p.totalVotes) \o " votes)"

\* seq is in descending order of key
Descending(seq, key) ==
  \A i, j \in 1..Len(seq) : i < j => seq[i][key] >= seq[j][key]

\* C21: the divisive ballots get_vote_stats shows, in the structured payload
\* and in the narrative, are at most ten, each among the ten highest division
\* scores of the upstream list, in descending order of score.
C21_TopTenByScore ==
  (pc = "done" /\ tool = "get_vote_stats") =>
    LET upstream == resp.body.divisiveScrutins
        shown == result.structuredContent.divisiveScrutins
    IN /\ Len(shown) = (IF Len(upstream) < 10 THEN Len(upstream) ELSE 10)
       /\ Descending(shown, "divisionScore")
       /\ \A i \in 1..Len(shown) :
            Cardinality({k \in 1..Len(upstream) :
               upstream[k].divisionScore > shown[i].divisionScore}) < 10
       /\ LinesAmong(result.text, {ScoreLine(upstream[k]) : k \in 1..Len(upstream)})
            = [i \in 1..Len(shown) |-> ScoreLine(shown[i])]

\* C22: get_vote_stats lists every upstream party once and in descending
\* order of cohesionRate, in the narrative and in the structured parties alike.
C22_PartiesByCohesion ==
  (pc = "done" /\ tool = "get_vote_stats") =>
    LET upstream == resp.body.parties
        listed == result.structuredContent.parties
        lines == LinesAmong(result.text,
                            {CohesionLine(upstream[k]) : k \in 1..Len(upstream)})
    IN /\ Len(listed) = Len(upstream)
       /\ Len(lines) = Len(upstream)
       /\ \A p \in PartyStatsSamples :
            /\ Cardinality({k \in 1..Len(listed) : listed[k].shortName = p.partyShortName})
                 = Cardinality({k \in 1..Len(upstream) : upstream[k] = p})
            /\ Cardinality({k \in 1..Len(lines) : lines[k] = CohesionLine(p)})
                 = Cardinality({k \in 1..Len(upstream) : upstream[k] = p})
       /\ Descending(listed, "cohesionRate")
       /\ \A i, j \in 1..Len(lines) : \A p, q \in PartyStatsSamples :
            (i < j /\ lines[i] = CohesionLine(p) /\ lines[j] = CohesionLine(q)) =>
              p.cohesionRate >= q.cohesionRate

\* the narrative line of entry e of the global verdict breakdown
VerdictLine(e) == "- " \o formatVerdict(e.key) \o " : **" \o ToString(e.count) \o "**"

\* the narrative line of source src
SourceLine_stats(src) ==
  "- **" \o src.source \o "** : " \o ToString(src.total) \o " fact-checks"

\* the narrative line of party p of the fact-check statistics
PartyLine_stats(p) ==
  "- **" \o p.partyShortName \o "** (" \o p.partyName \o ") -- " \o
  ToString(p.totalMentions) \o " mentions -- " \o VerdictList(p.byVerdict)

\* the lines of text drawn from entries by line are in descending order of key
LinesDescending(text, entries, line(_), key) ==
  LET lines == LinesAmong(text, {line(entries[k]) : k \in 1..Len(entries)})
  IN /\ Len(lines) = Len(entries)
     /\ \A i, j \in 1..Len(lines) : \A m, n \in 1..Len(entries) :
          (i < j /\ lines[i] = line(entries[m]) /\ lines[j] = line(entries[n])) =>
            entries[m][key] >= entries[n][key]

\* C23: in the output of get_factcheck_stats no verdict, source or party
\* entry precedes one with a strictly higher count, whatever the order
\* upstream returned them in.
C23_BreakdownsByCount ==
  (pc = "done" /\ tool = "get_factcheck_stats") =>
    /\ LinesDescending(result.text, resp.body.global.byVerdict, VerdictLine, "count")
    /\ LinesDescending(result.text, resp.body.bySource, SourceLine_stats, "total")
    /\ LinesDescending(result.text, resp.body.byParty, PartyLine_stats, "totalMentions")
    /\ Descending(result.structuredContent.bySource, "total")
    /\ Descending(result.structuredContent.byParty, "totalMentions")

RECURSIVE SumCounts(_)
\* the sum of the counts of entries
SumCounts(entries) ==
  IF entries = <<>> THEN 0 ELSE Head(entries).count + SumCounts(Tail(entries))

FirstN(seq, n) == [i \in 1..(IF Len(seq) < n THEN Len(seq) ELSE n) |-> seq[i]]

\* the trailer lines a narrative may hold, for every number of omitted entries
Trailers(suffix) == {"_... et " \o ToString(k) \o suffix : k \in 1..40}

\* the trailer that names the entries of seq beyond the first n, if there are any
TrailerOf(seq, n, suffix) ==
  IF Len(seq) > n
  THEN <<"_... et " \o ToString(Len(seq) - n) \o suffix>> ELSE <<>>

\* C25: the narrative of get_politician_relations shows the first 15 nodes of
\* every cluster, and that of get_party the first 30 members with a current
\* mandate and the first 10 without one; a trailer names the K = size - N
\* entries left out, and is there if and only if size > N.
C25_TruncatedWithTrailer ==
  /\ (pc = "done" /\ tool = "get_politician_relations") =>
       LET clusters == resp.body.clusters
           nodeLines == UNION {{RelationNodeLine(clusters[i].nodes[k]) :
                                  k \in 1..Len(clusters[i].nodes)} :
                               i \in 1..Len(clusters)}
       IN /\ LinesAmong(result.text, nodeLines) =
               Flatten([i \in 1..Len(clusters) |->
                  [k \in 1..Len(FirstN(clusters[i].nodes, 15)) |->
                     RelationNodeLine(clusters[i].nodes[k])]])
          /\ LinesAmong(result.text, Trailers(" autres_")) =
               Flatten([i \in 1..Len(clusters) |->
                  TrailerOf(clusters[i].nodes, 15, " autres_")])
  /\ (pc = "done" /\ tool = "get_party") =>
       LET members == resp.body.members
           with == SelectSeq(members, LAMBDA m : m.currentMandate # Null)
           without == SelectSeq(members, LAMBDA m : m.currentMandate = Null)
       IN /\ LinesAmong(result.text, {MemberLine(with[k]) : k \in 1..Len(with)}) =
               [k \in 1..Len(FirstN(with, 30)) |-> MemberLine(with[k])]
          /\ LinesAmong(result.text, {"- " \o without[k].fullName : k \in 1..Len(without)}) =
               [k \in 1..Len(FirstN(without, 10)) |-> "- " \o without[k].fullName]
          /\ LinesAmong(result.text, Trailers(" autres avec mandat_")) =
               TrailerOf(with, 30, " autres avec mandat_")
          /\ LinesAmong(result.text, Trailers(" autres_")) =
               TrailerOf(without, 10, " autres_")

\* a cluster of sixteen nodes, shown with a trailer for the sixteenth
C25_Witness ==
  /\ pc = "done"
  /\ tool = "get_politician_relations"
  /\ \E i \in 1..Len(resp.body.clusters) : Len(resp.body.clusters[i].nodes) = 16
  /\ \E k \in 1..Len(result.text) : result.text[k] = "_... et 1 autres_"

\* C26: the mandates section of the politician sheet holds every mandate
\* once, the current ones under "En cours" and the others under "Anciens
\* mandats", each part in upstream order, and a heading only over a part
\* that is not empty.
C26_MandatesPartitioned ==
  (pc = "done" /\ tool = "get_politician") =>
    LET mandates == resp.body.mandates
        current == SelectSeq(mandates, LAMBDA m : m.isCurrent)
        past == SelectSeq(mandates, LAMBDA m : ~m.isCurrent)
        section == {"### En cours", "### Anciens mandats"} \cup
                   {MandateLine(mandates[k]) : k \in 1..Len(mandates)}
    IN LinesAmong(result.text, section) =
         (IF current = <<>> THEN <<>>
          ELSE <<"### En cours">> \o
               [k \in 1..Len(current) |-> MandateLine(current[k])]) \o
         (IF past = <<>> THEN <<>>
          ELSE <<"### Anciens mandats">> \o
               [k \in 1..Len(past) |-> MandateLine(past[k])])

\* a past mandate comes first upstream and a current one second: both
\* headings are there
C26_Witness ==
  /\ pc = "done"
  /\ tool = "get_politician"
  /\ Len(resp.body.mandates) = 2
  /\ ~resp.body.mandates[1].isCurrent
  /\ resp.body.mandates[2].isCurrent
  /\ LinesAmong(result.text, {"### En cours", "### Anciens mandats"}) =
       <<"### En cours", "### Anciens mandats">>

RECURSIVE CommaList(_)
\* the strings of items, each but the first behind a comma and a space
CommaList(items) ==
  IF items = <<>> THEN ""
  ELSE CommaList(SubSeq(items, 1, Len(items) - 1)) \o
       (IF Len(items) > 1 THEN ", " ELSE "") \o items[Len(items)]

\* the suggestion lines a narrative may hold
AnySuggestionLine ==
  {"**Suggestions** : " \o CommaList(items) :
     items \in SeqsUpTo({"macron", "macon"}, 2)}

\* C27: when the upstream response of search_advanced has a non-empty
\* suggestions list, the narrative has one Suggestions line listing them and
\* the structured suggestions are that list; otherwise the narrative has no
\* such line and the structured suggestions are empty.
C27_SuggestionsPassedOn ==
  (pc = "done" /\ tool = "search_advanced") =>
    LET upstream == resp.body.suggestions
    IN IF upstream \notin {Undef, Null} /\ upstream.items # <<>>
       THEN /\ LinesAmong(result.text, AnySuggestionLine) =
                 <<"**Suggestions** : " \o CommaList(upstream.items)>>
            /\ result.structuredContent.suggestions = upstream.items
       ELSE /\ LinesAmong(result.text, AnySuggestionLine) = <<>>
            /\ result.structuredContent.suggestions = <<>>

\* two suggestions came with the response and are shown
C27_Witness ==
  /\ pc = "done"
  /\ tool = "search_advanced"
  /\ result.structuredContent.suggestions = <<"macron", "macon">>
  /\ \E k \in 1..Len(result.text) :
       result.text[k] = "**Suggestions** : macron, macon"

\* the endpoint of a slug-keyed tool: what its path holds before the slug
EndpointPrefix(t) ==
  IF t = "get_party" THEN <<"/", "api", "/", "partis", "/">>
  ELSE <<"/", "api", "/", "politiques", "/">>

\* and what it holds behind the slug
EndpointSuffix(t) ==
  CASE t = "get_politician_relations" -> <<"/", "relations">>
    [] t = "get_politician_affairs" -> <<"/", "affaires">>
    [] t = "get_politician_votes" -> <<"/", "votes">>
    [] t = "get_politician_factchecks" -> <<"/", "factchecks">>
    [] OTHER -> <<>>

\* C28: for every slug the path of the URL a slug-keyed tool requests is the
\* prefix of the tool's endpoint, the encoded slug and the tool's suffix: no
\* slug makes the resolution against the base origin reach another endpoint.
C28_SlugStaysInEndpoint ==
  (Sent /\ tool \in SlugTools) =>
    requests[1].url.pathname =
      EndpointPrefix(tool) \o encodeURIComponent(args.slug.s) \o EndpointSuffix(tool)

\* the result line of scrutin s in the list of votes, its result shown as shown
VoteResultLine(s, shown) ==
  "  " \o shown \o " -- Pour: " \o ToString(s.votesFor) \o ", Contre: " \o
  ToString(s.votesAgainst) \o ", Abstention: " \o ToString(s.votesAbstain)

\* the result line of vote v in the votes of a politician
PositionResultLine(v, shown) ==
  "  Vote : " \o formatPosition_votes(v.position) \o " -- Resultat : " \o shown

\* C29: list_votes and get_politician_votes show a scrutin as adopted if and
\* only if its result is exactly ADOPTED, and as rejected for every other
\* result, known to the layer or not; the raw code is never shown.
C29_AdoptedOrRejected ==
  /\ (pc = "done" /\ tool = "list_votes") =>
       LET items == resp.body.data
       IN LinesAmong(result.text,
                     {VoteResultLine(items[k], shown) :
                        k \in 1..Len(items), shown \in {"Adopte", "Rejete", "WITHDRAWN"}})
            = [k \in 1..Len(items) |->
                 VoteResultLine(items[k],
                   IF items[k].result = "ADOPTED" THEN "Adopte" ELSE "Rejete")]
  /\ (pc = "done" /\ tool = "get_politician_votes") =>
       LET votes == resp.body.votes
       IN LinesAmong(result.text,
                     {PositionResultLine(votes[k], shown) :
                        k \in 1..Len(votes), shown \in {"Adopte", "Rejete", "WITHDRAWN"}})
            = [k \in 1..Len(votes) |->
                 PositionResultLine(votes[k],
                   IF votes[k].scrutin.result = "ADOPTED" THEN "Adopte" ELSE "Rejete")]

\* a scrutin with a result the layer does not know is listed as rejected
C29_Witness ==
  /\ pc = "done"
  /\ tool = "list_votes"
  /\ Len(resp.body.data) = 2
  /\ resp.body.data[1].result = "WITHDRAWN"
  /\ resp.body.data[2].result = "ADOPTED"
  /\ LinesAmong(result.text,
                {VoteResultLine(resp.body.data[k], shown) :
                   k \in 1..2, shown \in {"Adopte", "Rejete"}})
       = <<VoteResultLine(resp.body.data[1], "Rejete"),
           VoteResultLine(resp.body.data[2], "Adopte")>>

-----------------------------------------------------------------------------
(* List items from upstream to the structured content and the narrative.    *)

\* the list tools whose items are the data array of a paginated response
ItemListTools == {"list_affairs", "search_politicians", "list_factchecks"}

\* the line that opens the part of the narrative about an item
ItemHeadLine(t, x) ==
  IF t = "search_politicians" THEN formatPoliticianSummary(x)
  ELSE "### " \o x.title

\* a structured entry y carries the upstream item x
SameItem(t, x, y) ==
  IF t = "list_factchecks"
  THEN y.title = x.title /\ y.claimText = x.claimText /\ y.sourceUrl = x.sourceUrl
  ELSE y.slug = x.slug

\* the structured items are the upstream items, one each, in upstream order,
\* and the narrative opens one part per upstream item in the same order
ItemsMirrored ==
  (pc = "done" /\ tool \in ItemListTools) =>
    LET items == resp.body.data
        heads == [i \in 1..Len(items) |-> ItemHeadLine(tool, items[i])]
    IN /\ Len(result.structuredContent.items) = Len(items)
       /\ \A i \in 1..Len(items) :
            SameItem(tool, items[i], result.structuredContent.items[i])
       /\ LinesAmong(result.text, {heads[i] : i \in 1..Len(items)}) = heads

\* the heading of a cluster in the narrative of get_politician_relations
ClusterHeading(c) ==
  "## " \o c.label \o " -- " \o formatRelationType(c.type) \o
  " (" \o ToString(Len(c.nodes)) \o ")"

\* the narrative has one heading per cluster in upstream order
ClustersInNarrative ==
  Rendered("get_politician_relations") =>
    LET clusters == resp.body.clusters
        heads == [i \in 1..Len(clusters) |-> ClusterHeading(clusters[i])]
    IN LinesAmong(result.text, {heads[i] : i \in 1..Len(clusters)}) = heads

\* every node of every cluster is in the structured relations, under the type
\* of its cluster, in upstream order
NodesInRelations ==
  Rendered("get_politician_relations") =>
    LET clusters == resp.body.clusters
        rel == result.structuredContent.relations
    IN \A i \in 1..Len(clusters) :
         /\ clusters[i].type \in DOMAIN rel
         /\ \A k \in 1..Len(clusters[i].nodes) :
              \E j \in 1..Len(rel[clusters[i].type]) :
                rel[clusters[i].type][j].slug = clusters[i].nodes[k].slug

\* C30: for every list tool with structured content, the structured item array
\* has exactly one entry per upstream item, in upstream order, and the
\* narrative has one part per upstream item in the same order; nothing is
\* dropped, duplicated, filtered or reordered, and get_politician_relations
\* keeps every node in the structured relations even when the narrative shows
\* only fifteen of them.
C30_ListsMirrored ==
  /\ ItemsMirrored
  /\ ClustersInNarrative
  /\ NodesInRelations

====
